---- MODULE Spec2Model ----
(***************************************************************************)
(* Model of the order-up event producer (src/producer-python):             *)
(*   - config.ORDER_PATTERNS, the weighted catalog of lifecycle patterns;  *)
(*   - EventGenerator (event_generator.py), which walks one pattern and    *)
(*     builds the events of one order;                                     *)
(*   - EdgeCaseInjector (edge_case_injector.py), which turns one order's   *)
(*     events into a main list and a late list;                            *)
(*   - OrderProducer.run_simulation (producer.py), which generates,        *)
(*     injects and sends order after order, then sends the late events.    *)
(*                                                                         *)
(* Randomness.  The code draws from three sources:                         *)
(*   - the process-wide `random` module, seeded by random.seed(seed);      *)
(*   - Faker's shared generator, seeded by Faker.seed(seed);               *)
(*   - uuid.uuid4(), which reads operating-system entropy and is seeded    *)
(*     by nothing.                                                         *)
(* A seeded stream is a function of its seed.  The model reveals the       *)
(* stream of each seed lazily: the first time a position of the stream is  *)
(* read its value is chosen, and it is recorded in randTape, so that a     *)
(* second read of the same position after re-seeding returns the same      *)
(* value.  A raw stream value r in 0..Unit-1 stands for the float r/Unit   *)
(* returned by random.random(); uniform, randint, choice, choices and      *)
(* shuffle are computed from it as the library computes them.              *)
(* Faker's uuid4()/word() values are opaque; the model names the value     *)
(* read at position p of the stream of seed s by the pair <<s, p>>.        *)
(*                                                                         *)
(* Time.  A datetime is a number of ticks of 1/Unit s = 1/10000 s; event_ts *)
(* is in                                                                   *)
(* milliseconds, int(event_ts.timestamp() * 1000) = ticks \div 10.         *)
(* Money is in cents.  Probabilities and weights are in percent.           *)
(***************************************************************************)
EXTENDS Integers, Sequences, FiniteSets, TLC

VARIABLES
    zone,          \* the local time zone of the process (TZ)
    patterns,      \* config.ORDER_PATTERNS
    randSeed,      \* seed last given to random.seed
    randTape,      \* per seed: the part of the random stream revealed so far
    randPos,       \* number of values read from `random` since random.seed
    fakerSeed,     \* seed last given to Faker.seed
    fakerPos,      \* number of values read from Faker since Faker.seed
    uuidCount,     \* number of uuid.uuid4() calls so far
    generators,    \* EventGenerator instances: seed and self.order_items
    gpc,           \* position of the running generate_order_lifecycle call
    frame,         \* its locals
    returned,      \* the completed generate_order_lifecycle calls, in order
    injector,      \* the EdgeCaseInjector instance (its three probabilities)
    ipc,           \* position of the running inject_edge_cases call
    events,        \* its argument
    main_events,   \* its local main_events
    late_arrivals, \* its local late_arrivals
    i,             \* its loop index
    shuffled,      \* what the out-of-order pass did: <<>> or <<start, size>>
    rpc,           \* position of run_simulation ("off": no run)
    num_orders,    \* SIMULATION_CONFIG['num_orders']
    order_num,     \* its loop variable order_num
    all_late_arrivals, \* its local all_late_arrivals
    sent,          \* number of events of the list being sent that were sent
    injected,      \* the (main_events, late_arrivals) each order was given
    log            \* the calls made so far on time.sleep and on the producer

genVars == <<zone, patterns, randSeed, randTape, randPos, fakerSeed, fakerPos,
             uuidCount, generators, gpc, frame, returned>>
injVars == <<injector, ipc, events, main_events, late_arrivals, i, shuffled>>
runVars == <<rpc, num_orders, order_num, all_late_arrivals, sent, injected,
             log>>
vars == <<genVars, injVars, runVars>>

----------------------------------------------------------------------------
(* Bounds of the exploration *)

\* generate_order_lifecycle calls explored in one behaviour
MaxCalls == 2
\* positions of the random streams at which a value above the least of its
\* range is explored
MaxHigh == 2
\* length of the injector's input
MaxEvents == 3

----------------------------------------------------------------------------
(* Sequences and numbers *)

Range(s) == {s[k] : k \in DOMAIN s}

Min(S) == CHOOSE x \in S : \A y \in S : x <= y

MinOf(a, b) == IF a <= b THEN a ELSE b

RECURSIVE SumSeq(_)
SumSeq(s) == IF s = <<>> THEN 0 ELSE Head(s) + SumSeq(Tail(s))

\* s without its k-th element
RemoveAt(s, k) == SubSeq(s, 1, k - 1) \o SubSeq(s, k + 1, Len(s))

\* (mutant) the item is chosen and the ledger is left as it was
ListRemoveNothing(s, x) == s

\* list.remove(x): removes the first element equal to x
ListRemove(s, x) ==
    RemoveAt(s, Min({k \in DOMAIN s : s[k] = x}))

\* dict assignment d[k] = v
DictSet(d, k, v) ==
    [x \in DOMAIN d \cup {k} |-> IF x = k THEN v ELSE d[x]]

\* dict.get(k, default)
DictGet(d, k, default) == IF k \in DOMAIN d THEN d[k] ELSE default

----------------------------------------------------------------------------
(* The random module *)

\* random.random() returns r / Unit for a raw value r in 0..Unit-1
Unit == 100 * 100

\* random.uniform(a, b) = a + (b - a) * random(), in units of 1/Unit
Uniform(r, a, b) == a * Unit + (b - a) * r

\* round(random.uniform(a, b), 2) in hundredths, span = 100 * (b - a)
UniformRounded(r, a, span) == a + (2 * span * r + Unit) \div (2 * Unit)

\* random.randint(a, b), random.choice (index from 0), _randbelow(n)
RandBelow(r, n) == (r * n) \div Unit

RandInt(r, a, b) == a + RandBelow(r, b - a + 1)

\* random.choice(seq)
Choice(r, seq) == seq[RandBelow(r, Len(seq)) + 1]

\* (mutant) random.random() <= p
ChanceInclusive(r, p) == r * 100 <= p * Unit

\* random.random() < p, with p in percent
Chance(r, p) == r * 100 < p * Unit

\* the least raw value of each of the n outcomes of RandBelow(_, n)
BelowRaws(n) == {(j * Unit + n - 1) \div n : j \in 0 .. n - 1}

\* the raw values explored for random.randint over n values: the least one
\* of each outcome, and the greatest raw value
RangeRaws(n) == BelowRaws(n) \cup {Unit - 1}

\* raw values explored for a draw whose value only places a number in a range
EndRaws == {0, Unit - 1}

\* the streams: one per seed, and the one the interpreter starts with,
\* seeded from operating-system entropy
OsSeeded == 0 - 1

\* the stream of the current seed, as far as it is revealed
Tape == randTape[randSeed]

\* the stream after the current step has drawn the values rs
TapeAfter(rs) ==
    IF randPos + Len(rs) <= Len(Tape) THEN randTape
    ELSE [randTape EXCEPT ![randSeed] = SubSeq(Tape, 1, randPos) \o rs]

\* number of revealed stream values, over the seeds S, above the least one
RECURSIVE HighDraws(_, _)
HighDraws(tapes, S) ==
    IF S = {} THEN 0
    ELSE LET s == CHOOSE x \in S : TRUE
         IN Cardinality({p \in DOMAIN tapes[s] : tapes[s][p] # 0})
            + HighDraws(tapes, S \ {s})

\* The values explored for the k-th draw of the current step, D being the
\* raw values explored when the draw reads a position of the stream for the
\* first time: a position revealed already returns the recorded value.
FreeDraw(k, D) ==
    IF randPos + k <= Len(Tape) THEN {Tape[randPos + k]} ELSE D

\* the sequences that take their k-th element in sets[k]
RECURSIVE Product(_)
Product(sets) ==
    IF sets = <<>> THEN {<<>>}
    ELSE {<<h>> \o t : h \in Head(sets), t \in Product(Tail(sets))}

\* The sequences of values the draws of one step may return, doms[k] being
\* the raw values explored for its k-th draw.
FreeDrawSeqs(doms) == Product([k \in DOMAIN doms |-> FreeDraw(k, doms[k])])

\* the number of positions at which a value above the least is explored:
\* MaxHigh for calls on their own, half of it in a simulation run, which
\* draws for every order and every event
HighCap == IF rpc = "off" THEN MaxHigh ELSE MaxHigh \div 2

\* The same where many draws follow one another (the generator, whose
\* lifecycles are long, and a whole simulation run): the streams of one
\* behaviour take a value above the least one at no more than HighCap
\* positions.
DrawSeqs(doms) ==
    {rs \in FreeDrawSeqs(doms) :
        \/ randPos + Len(doms) <= Len(Tape)
        \/ HighDraws(TapeAfter(rs), DOMAIN randTape) <= HighCap}

----------------------------------------------------------------------------
(* config.py: the pattern catalog *)

Pattern(name, weight, evs) == [name |-> name, weight |-> weight, events |-> evs]

ORDER_PATTERNS == <<
    Pattern("HAPPY_PATH", 50,
        <<"ORDER_CREATED", "ORDER_ITEM_ADDED", "ORDER_ITEM_ADDED",
          "ORDER_CONFIRMED", "ORDER_COMPLETED">>),
    Pattern("EARLY_CANCEL", 15,
        <<"ORDER_CREATED", "ORDER_ITEM_ADDED", "ORDER_CANCELLED">>),
    Pattern("LATE_CANCEL", 10,
        <<"ORDER_CREATED", "ORDER_ITEM_ADDED", "ORDER_CONFIRMED",
          "ORDER_CANCELLED">>),
    Pattern("COMPLEX_ORDER", 15,
        <<"ORDER_CREATED", "ORDER_ITEM_ADDED", "ORDER_ITEM_ADDED",
          "ORDER_ITEM_REMOVED", "ORDER_ITEM_ADDED", "ORDER_CONFIRMED",
          "ORDER_COMPLETED">>),
    Pattern("WITH_UPDATES", 10,
        <<"ORDER_CREATED", "ORDER_ITEM_ADDED", "ORDER_UPDATED",
          "ORDER_CONFIRMED", "ORDER_COMPLETED">>) >>

\* A second catalog, as a test installs one in place of ORDER_PATTERNS: its
\* patterns remove more items than the shipped ones do, down to an empty
\* ledger and beyond.
LEDGER_PATTERNS == <<
    Pattern("REMOVE_ALL", 50,
        <<"ORDER_CREATED", "ORDER_ITEM_ADDED", "ORDER_ITEM_ADDED",
          "ORDER_ITEM_REMOVED", "ORDER_ITEM_REMOVED", "ORDER_COMPLETED">>),
    Pattern("REMOVE_TWICE", 30,
        <<"ORDER_CREATED", "ORDER_ITEM_ADDED", "ORDER_ITEM_REMOVED",
          "ORDER_ITEM_REMOVED", "ORDER_ITEM_ADDED", "ORDER_COMPLETED">>),
    Pattern("CREATE_ONLY", 20, <<"ORDER_CREATED">>) >>

\* A catalog with a pattern that has a step of no known event type.
UNKNOWN_TYPE_PATTERNS == <<
    Pattern("REFUND", 50,
        <<"ORDER_CREATED", "ORDER_ITEM_ADDED", "ORDER_REFUNDED",
          "ORDER_COMPLETED">>),
    Pattern("REFUND_FIRST", 50, <<"ORDER_REFUNDED", "ORDER_CREATED">>) >>

\* Malformed catalogs: a pattern without steps; a pattern of negative
\* weight beside a sound one; weights that are all zero.
EMPTY_STEPS_PATTERNS == <<
    Pattern("EMPTY", 60, <<>>),
    Pattern("CREATE_ONLY", 40, <<"ORDER_CREATED">>) >>

NEGATIVE_WEIGHT_PATTERNS == <<
    Pattern("NEGATIVE", 0 - 10, <<"ORDER_CREATED", "ORDER_CANCELLED">>),
    Pattern("CREATE_ONLY", 50, <<"ORDER_CREATED">>) >>

ZERO_WEIGHT_PATTERNS == <<
    Pattern("NEVER", 0, <<"ORDER_CREATED">>),
    Pattern("NEITHER", 0, <<"ORDER_CREATED", "ORDER_CANCELLED">>) >>

MalformedCatalogs ==
    {EMPTY_STEPS_PATTERNS, NEGATIVE_WEIGHT_PATTERNS, ZERO_WEIGHT_PATTERNS}

\* A catalog whose patterns update an order at every status: twice in a
\* row while it is pending, after it was confirmed, after it was cancelled.
UPDATE_PATTERNS == <<
    Pattern("UPDATE_OFTEN", 60,
        <<"ORDER_CREATED", "ORDER_UPDATED", "ORDER_UPDATED",
          "ORDER_CONFIRMED", "ORDER_UPDATED", "ORDER_COMPLETED",
          "ORDER_UPDATED">>),
    Pattern("UPDATE_CANCELLED", 40,
        <<"ORDER_CREATED", "ORDER_CANCELLED", "ORDER_UPDATED">>) >>

Catalogs == {ORDER_PATTERNS, LEDGER_PATTERNS, UNKNOWN_TYPE_PATTERNS,
             UPDATE_PATTERNS}
                \cup MalformedCatalogs

EventTypes == {"ORDER_CREATED", "ORDER_ITEM_ADDED", "ORDER_ITEM_REMOVED",
               "ORDER_UPDATED", "ORDER_CONFIRMED", "ORDER_CANCELLED",
               "ORDER_COMPLETED"}

----------------------------------------------------------------------------
(* random.choices(ORDER_PATTERNS, weights, k=1) *)

Weights(ps) == [k \in DOMAIN ps |-> ps[k].weight]

\* itertools.accumulate(weights)
CumWeights(ws) == [k \in DOMAIN ws |-> SumSeq(SubSeq(ws, 1, k))]

\* random.choices raises ValueError unless the total weight is positive
\* (and IndexError on an empty population)
ChoicesRaises(ps) ==
    \/ Len(ps) = 0
    \/ CumWeights(Weights(ps))[Len(ps)] <= 0

\* bisect(cum_weights, random() * total, 0, n - 1), as an index from 1
ChoicesIndex(r, ps) ==
    LET cum == CumWeights(Weights(ps))
        total == cum[Len(ps)]
    IN 1 + Cardinality({k \in 1 .. Len(ps) - 1 : cum[k] * Unit <= r * total})

\* the least raw value that selects each pattern
ChoicesRaws(ps) ==
    LET cum == CumWeights(Weights(ps))
        total == cum[Len(ps)]
    IN {r \in {0} \cup {(cum[k] * Unit + total - 1) \div total :
                        k \in 1 .. Len(ps) - 1} : r >= 0 /\ r < Unit}

----------------------------------------------------------------------------
(* event_generator.py *)

\* EventGenerator(seed: int = 42)
DefaultSeed == 42
Seeds == {DefaultSeed, 7}
Gens == {1, 2}

\* f"order_{order_num:04d}" (producer.py, line 142)
OrderIdOf(n) ==
    <<"order_0000", "order_0001", "order_0002", "order_0003">>[n + 1]

OrderIds == {OrderIdOf(0), OrderIdOf(1)}

\* timedelta(minutes=m), in ticks
MinutesTicks(m) == m * 60 * Unit

\* The base_timestamp the caller passes for an order (producer.py, line
\* 147): a start time, here 500.0007 s, plus five minutes per order.
BaseTimestamp(order_id) ==
    5000007 + MinutesTicks(5 * (CHOOSE n \in 0 .. 3 : OrderIdOf(n) = order_id))

\* f"cust_{self.faker.uuid4()[:8]}" and the like: the value Faker returns at
\* position p of the stream of the current seed
FakerId(prefix, p) == <<prefix, fakerSeed, p>>

\* The datetimes of the program are naive: wall-clock readings of the local
\* time zone, here in ticks since 1970-01-01 00:00 on that clock.
\* timedelta arithmetic adds to the reading.  A zone is its offset from UTC
\* in seconds, `before` up to the instant `at` (seconds since the epoch) and
\* `after` from then on.
Zone(before, at, after) == [before |-> before, at |-> at, after |-> after]

UTC == Zone(0, 0, 0)

\* A zone whose clocks are put forward by one hour at the instant 520 s: the
\* wall clock never shows the hour before 520 s.
SpringForward == Zone(0 - 3600, 520, 0)

\* A zone whose clocks are put back by one hour at the instant 520 s: the
\* wall clock shows the hour before 520 s twice.
FallBack == Zone(0, 520, 0 - 3600)

\* the zones explored
Zones == {UTC, SpringForward, FallBack}

\* time.localtime(u), as seconds on the wall clock
Local(u) == u + (IF u < zone.at THEN zone.before ELSE zone.after)

\* the search for an instant u with Local(u) = t that datetime.timestamp()
\* makes for a naive datetime (fold = 0); a reading t the wall clock never
\* shows is taken with the offset in force before the clocks were moved
Mktime(t) ==
    LET a == Local(t) - t
        u1 == t - a
        t1 == Local(u1)
        b == IF t1 = t THEN Local(u1 - 24 * 3600) - (u1 - 24 * 3600)
             ELSE t1 - u1
        u2 == t - b
        t2 == Local(u2)
    IN IF t1 = t /\ a = b THEN u1
       ELSE IF t2 = t THEN u2
       ELSE IF t1 = t THEN u1
       ELSE IF u1 > u2 THEN u1 ELSE u2

\* the instant of the naive datetime ts, in ticks since the epoch
EpochTicks(ts) == Mktime(ts \div Unit) * Unit + (ts % Unit)

\* int(event_ts.timestamp() * 1000), line 82.  timestamp() is the double
\* nearest to S + us / 1e6, for the whole seconds S since the epoch and the
\* microseconds us of event_ts; the product with 1000 is rounded to a
\* double again, and int() cuts off its fraction.  When the instant is a
\* whole number k + 1000 * S of milliseconds, the rounded product may lie
\* below that number, and the result is one millisecond less.  The
\* operators below compute the two roundings (to nearest, ties to even, 53
\* bits) in integers.

\* the e with 2^e <= n < 2^(e+1)
Log2(n) == CHOOSE e \in 0 .. 29 : 2^e <= n /\ n < 2 * 2^e

\* 2^e modulo M
RECURSIVE Pow2Mod(_, _)
Pow2Mod(e, M) == IF e = 0 THEN 1 % M ELSE (2 * Pow2Mod(e - 1, M)) % M

\* the t with 2^(-t) <= k / 1000 < 2^(1-t), for k in 1 .. 999
FracExp(k) == CHOOSE t \in 1 .. 10 : k * 2^t >= 1000 /\ k * 2^(t - 1) < 1000

\* 1000 * 2^a * (the double us / 1e6 less k / 1000), for a = 52 + FracExp(k)
FracError(k) ==
    LET q1 == (k * Pow2Mod(52 + FracExp(k), 1000)) % 1000
    IN IF q1 < 500 THEN 0 - q1 ELSE 1000 - q1

\* 1000 * 2^p * (the double S + us / 1e6 less S + k / 1000), for
\* p = 52 - Log2(S) and S >= 1: the sum is rounded to a multiple of 2^(-p)
SumError(S, k) ==
    LET p == 52 - Log2(S)
        c == Min({Log2(S) + FracExp(k), 10})
        q == (k * Pow2Mod(p, 1000)) % 1000
        odd == (k * Pow2Mod(p, 2000)) % 2000 >= 1000
        y == q * 2^c + FracError(k)
        half == 500 * 2^c
    IN IF y > half \/ (y = half /\ odd) THEN 1000 - q ELSE 0 - q

\* whether the product timestamp() * 1000 is rounded to a double below the
\* whole number m of milliseconds of the instant ts (ticks since the epoch)
RoundsBelow(ts) ==
    LET S == ts \div Unit
        m == ts \div 10
        k == m % 1000
        d == IF S = 0 THEN FracError(k) ELSE SumError(S, k)
        diff == IF S = 0 THEN Log2(k) + FracExp(k) ELSE Log2(m) - Log2(S)
        thr == IF m = 2^Log2(m) THEN 2^(diff - 2) ELSE 2^(diff - 1)
    IN ts % 10 = 0 /\ k # 0 /\ 0 - d > thr

Millis(ts) ==
    LET u == EpochTicks(ts)
    IN IF RoundsBelow(u) THEN u \div 10 - 1 ELSE u \div 10

\* timedelta(seconds=random.uniform(1, 30)), in ticks
GapTicks(r) == Uniform(r, 1, 30)

Dishes == <<"Burger", "Pizza", "Salad", "Pasta", "Taco">>

Reasons == <<"Customer requested cancellation", "Restaurant unavailable",
             "Payment failed", "Item out of stock", "None">>

\* (mutant) the total of the prices, whatever the quantities
ItemsTotalNoQuantity(items) ==
    SumSeq([k \in DOMAIN items |-> items[k].price])

\* sum(item['price'] * item['quantity'] for item in items)
ItemsTotal(items) ==
    SumSeq([k \in DOMAIN items |-> items[k].price * items[k].quantity])

\* The raw values explored for the fresh draws of _create_payload, in the
\* order it draws them.
PayloadDraws(event_type, items) ==
    CASE event_type = "ORDER_UPDATED" -> <<BelowRaws(2)>>
      [] event_type = "ORDER_ITEM_ADDED" -> <<{0}, EndRaws, EndRaws>>
      [] event_type = "ORDER_ITEM_REMOVED" ->
            IF items # <<>> THEN <<BelowRaws(Len(items))>> ELSE <<>>
      [] event_type = "ORDER_CONFIRMED" -> <<{0}>>
      [] event_type = "ORDER_CANCELLED" -> <<{0}>>
      [] event_type = "ORDER_COMPLETED" ->
            IF ItemsTotal(items) = 0 THEN <<EndRaws>> ELSE <<>>
      [] OTHER -> <<>>

\* The number of values _create_payload reads from Faker.
FakerCalls(event_type, items) ==
    CASE event_type = "ORDER_ITEM_ADDED" -> 2
      [] event_type = "ORDER_ITEM_REMOVED" -> IF items # <<>> THEN 0 ELSE 1
      [] event_type = "ORDER_CONFIRMED" -> 1
      [] event_type = "ORDER_CANCELLED" -> 1
      [] OTHER -> 0

\* What _create_payload does to the streams and the ledger, in the order it
\* does it: "rand" a value read from random, "faker" a value read from
\* Faker, "ledger" the append or remove on self.order_items[order_id].
Effects(event_type, items) ==
    CASE event_type = "ORDER_UPDATED" -> <<"rand">>
      [] event_type = "ORDER_ITEM_ADDED" ->
            <<"faker", "faker", "rand", "rand", "rand", "ledger">>
      [] event_type = "ORDER_ITEM_REMOVED" ->
            IF items # <<>> THEN <<"rand", "ledger">> ELSE <<"faker">>
      [] event_type = "ORDER_CONFIRMED" -> <<"faker", "rand">>
      [] event_type = "ORDER_CANCELLED" -> <<"faker", "rand">>
      [] event_type = "ORDER_COMPLETED" ->
            IF ItemsTotal(items) = 0 THEN <<"rand">> ELSE <<>>
      [] OTHER -> <<>>

\* the number of x among the elements of s
Count(s, x) == Cardinality({k \in DOMAIN s : s[k] = x})

\* (mutant) no test for an empty ledger: random.choice([]) raises IndexError
RemoveFromEmptyRaises(items, fp) ==
    [raised |-> TRUE, items |-> items, payload |-> <<>>]

\* lines 156-162, ORDER_ITEM_REMOVED with nothing in the ledger: the payload
\* names an item made up on the spot, the ledger is not touched
RemoveFromEmpty(items, fp) ==
    [raised |-> FALSE, items |-> items,
     payload |-> [tag |-> "OrderItemRemovedPayload",
                  item_id |-> FakerId("item", fp + 1)]]

\* (mutant) an unknown event type falls through and returns None
UnknownEventTypeIgnored(event_type, items) ==
    [raised |-> FALSE, items |-> items, payload |-> <<>>]

\* lines 200-201: raise ValueError(f"Unknown event type: {event_type}")
UnknownEventType(event_type, items) ==
    [raised |-> TRUE, items |-> items, payload |-> <<>>]

\* _create_payload: the payload and the ledger of order_id after it, given
\* the ledger `items` before it, the random values rs it draws and the
\* Faker position fp it starts at.  raised: ValueError, unknown event type.
CreatePayload(event_type, customer_id, restaurant_id, current_status, event_ts, items, rs, fp) ==
    CASE event_type = "ORDER_CREATED" ->
            [raised |-> FALSE, items |-> items,
             payload |-> [tag |-> "OrderCreatedPayload",
                          customer_id |-> customer_id,
                          restaurant_id |-> restaurant_id,
                          initial_status |-> "PENDING"]]
      [] event_type = "ORDER_UPDATED" ->
            [raised |-> FALSE, items |-> items,
             payload |-> [tag |-> "OrderUpdatedPayload",
                          old_status |-> current_status,
                          new_status |-> Choice(rs[1], <<"PENDING", "CONFIRMED">>)]]
      [] event_type = "ORDER_ITEM_ADDED" ->
            LET item == [item_id |-> FakerId("item", fp + 1),
                         item_name |-> <<FakerId("word", fp + 2),
                                         Choice(rs[1], Dishes)>>,
                         quantity |-> RandInt(rs[2], 1, 5),
                         price |-> UniformRounded(rs[3], 599, 2400)]
            IN [raised |-> FALSE, items |-> Append(items, item),
                payload |-> [tag |-> "OrderItemAddedPayload",
                             item_id |-> item.item_id,
                             item_name |-> item.item_name,
                             quantity |-> item.quantity,
                             price |-> item.price]]
      [] event_type = "ORDER_ITEM_REMOVED" ->
            IF items # <<>>
            THEN LET removed_item == Choice(rs[1], items)
                 IN [raised |-> FALSE,
                     items |-> ListRemove(items, removed_item),
                     payload |-> [tag |-> "OrderItemRemovedPayload",
                                  item_id |-> removed_item.item_id]]
            ELSE RemoveFromEmpty(items, fp)
      [] event_type = "ORDER_CONFIRMED" ->
            [raised |-> FALSE, items |-> items,
             payload |-> [tag |-> "OrderConfirmedPayload",
                          confirmed_by |-> FakerId("user", fp + 1),
                          estimated_delivery_ts |->
                              Millis(event_ts
                                     + MinutesTicks(RandInt(rs[1], 30, 90)))]]
      [] event_type = "ORDER_CANCELLED" ->
            [raised |-> FALSE, items |-> items,
             payload |-> [tag |-> "OrderCancelledPayload",
                          cancelled_by |-> FakerId("user", fp + 1),
                          reason |-> Choice(rs[1], Reasons)]]
      [] event_type = "ORDER_COMPLETED" ->
            LET total == ItemsTotal(items)
            IN [raised |-> FALSE, items |-> items,
                payload |-> [tag |-> "OrderCompletedPayload",
                             completed_ts |-> Millis(event_ts),
                             total_amount |->
                                 IF total = 0
                                 THEN UniformRounded(rs[1], 1599, 8400)
                                 ELSE total]]
      [] OTHER -> UnknownEventType(event_type, items)

\* (mutant) an ORDER_UPDATED is taken to confirm the order
NextStatusOnUpdate(event_type, current_status) ==
    CASE event_type = "ORDER_CONFIRMED" -> "CONFIRMED"
      [] event_type = "ORDER_CANCELLED" -> "CANCELLED"
      [] event_type = "ORDER_COMPLETED" -> "COMPLETED"
      [] event_type = "ORDER_UPDATED" -> "CONFIRMED"
      [] OTHER -> current_status

\* (mutant) the branch for ORDER_CONFIRMED is missing
NextStatusNoConfirm(event_type, current_status) ==
    CASE event_type = "ORDER_CANCELLED" -> "CANCELLED"
      [] event_type = "ORDER_COMPLETED" -> "COMPLETED"
      [] OTHER -> current_status

\* current_status after an event of type event_type (lines 60-65)
NextStatus(event_type, current_status) ==
    CASE event_type = "ORDER_CONFIRMED" -> "CONFIRMED"
      [] event_type = "ORDER_CANCELLED" -> "CANCELLED"
      [] event_type = "ORDER_COMPLETED" -> "COMPLETED"
      [] OTHER -> current_status

\* the event dictionary _create_event returns; n uuid4 calls came before
EventRecord(n, event_type, event_ts, order_id, payload) ==
    [event_id |-> n + 1,
     event_type |-> event_type,
     event_ts |-> Millis(event_ts),
     order_id |-> order_id,
     payload |-> payload,
     schema_version |-> 1]

NoFrame == [pc |-> "none"]

NoPattern == Pattern("none", 0, <<>>)

NotMade == [made |-> FALSE]

\* EventGenerator.__init__ (lines 17-23).  Instances are numbered in the
\* order of their construction.
Construct(g, seed) ==
    /\ gpc = "idle" /\ ipc = "idle"
    /\ ~generators[g].made
    /\ \A h \in Gens : h < g => generators[h].made
    /\ fakerSeed' = seed /\ fakerPos' = 0
    /\ randSeed' = seed /\ randPos' = 0
    /\ generators' = [generators EXCEPT ![g] =
           [made |-> TRUE, seed |-> seed, order_items |-> <<>>]]
    /\ UNCHANGED <<zone, patterns, randTape, uuidCount, gpc, frame, returned>>
    /\ UNCHANGED injVars

\* What a completed call leaves in `returned`: its arguments, where the
\* streams stood when it began, the pattern it chose, the number of events
\* it had built when it ended, whether it raised, whether what it raised
\* was a KeyboardInterrupt, and the list it returned.
CallRecord(f, raised, evs) ==
    [self |-> f.self, seed |-> generators[f.self].seed,
     order_id |-> f.order_id, base_timestamp |-> f.base_timestamp,
     rand_at |-> f.rand_at, faker_at |-> f.faker_at,
     pattern |-> IF "pattern" \in DOMAIN f THEN f.pattern ELSE NoPattern,
     built |-> IF "events" \in DOMAIN f THEN Len(f.events) ELSE 0,
     raised |-> raised, interrupted |-> FALSE, events |-> evs]

\* (mutant) the entry of order_id is made only when there is none
LedgerSetDefault(order_items, order_id) ==
    IF order_id \in DOMAIN order_items THEN order_items
    ELSE DictSet(order_items, order_id, <<>>)

\* line 39: self.order_items[order_id] = []
LedgerReset(order_items, order_id) == DictSet(order_items, order_id, <<>>)

\* generate_order_lifecycle, lines 31-44: the pattern is chosen, the
\* ledger of order_id is reset, customer and restaurant are made up.
GenerateCall(g, order_id, base_timestamp) ==
    /\ gpc = "idle" /\ ipc = "idle"
    /\ generators[g].made
    /\ Len(returned) < MaxCalls
    /\ LET f0 == [self |-> g, order_id |-> order_id,
                  base_timestamp |-> base_timestamp,
                  rand_at |-> <<randSeed, randPos>>,
                  faker_at |-> <<fakerSeed, fakerPos>>]
       IN
       IF ChoicesRaises(patterns)
       THEN /\ gpc' = "idle"
            /\ frame' = NoFrame
            /\ returned' = Append(returned, CallRecord(f0, TRUE, <<>>))
            /\ UNCHANGED <<randTape, randPos, fakerPos, generators>>
       ELSE \E rs \in DrawSeqs(<<ChoicesRaws(patterns)>>) :
            /\ randTape' = TapeAfter(rs)
            /\ randPos' = randPos + 1
            /\ fakerPos' = fakerPos + 2
            /\ generators' = [generators EXCEPT ![g].order_items =
                   LedgerReset(@, order_id)]
            /\ gpc' = "loop"
            /\ frame' = [self |-> g, order_id |-> order_id,
                         base_timestamp |-> base_timestamp,
                         rand_at |-> f0.rand_at, faker_at |-> f0.faker_at,
                         pattern |-> patterns[ChoicesIndex(rs[1], patterns)],
                         events |-> <<>>,
                         current_ts |-> base_timestamp,
                         customer_id |-> FakerId("cust", fakerPos + 1),
                         restaurant_id |-> FakerId("rest", fakerPos + 2),
                         current_status |-> "PENDING",
                         step |-> 1]
            /\ UNCHANGED returned
    /\ UNCHANGED <<zone, patterns, randSeed, fakerSeed, uuidCount>>
    /\ UNCHANGED injVars

\* One iteration of the loop of generate_order_lifecycle (lines 46-67):
\* the timestamp advances, _create_event makes the event and its payload,
\* the status is updated, the event is appended.  An unknown event type
\* raises ValueError out of the call.
GenerateStep ==
    /\ gpc = "loop"
    /\ frame.step <= Len(frame.pattern.events)
    /\ LET event_type == frame.pattern.events[frame.step]
           ledger == generators[frame.self].order_items
           items == DictGet(ledger, frame.order_id, <<>>)
           fresh == <<EndRaws>> \o PayloadDraws(event_type, items)
       IN \E rs \in DrawSeqs(fresh) :
          LET event_ts == frame.current_ts + GapTicks(rs[1])
              made == CreatePayload(event_type, frame.customer_id,
                                    frame.restaurant_id, frame.current_status,
                                    event_ts, items, Tail(rs), fakerPos)
              event == EventRecord(uuidCount, event_type, event_ts,
                                   frame.order_id, made.payload)
          IN /\ uuidCount' = uuidCount + 1
             /\ IF made.raised
                THEN /\ randTape' = TapeAfter(<<rs[1]>>)
                     /\ randPos' = randPos + 1
                     /\ gpc' = "idle"
                     /\ frame' = NoFrame
                     /\ returned' = Append(returned,
                                           CallRecord(frame, TRUE, <<>>))
                     /\ UNCHANGED <<fakerPos, generators>>
                ELSE /\ randTape' = TapeAfter(rs)
                     /\ randPos' = randPos + Len(rs)
                     /\ fakerPos' = fakerPos + FakerCalls(event_type, items)
                     /\ generators' =
                            [generators EXCEPT ![frame.self].order_items =
                                IF made.items = items THEN @
                                ELSE DictSet(@, frame.order_id, made.items)]
                     /\ gpc' = "loop"
                     /\ frame' = [frame EXCEPT
                            !.current_ts = event_ts,
                            !.current_status =
                                NextStatus(event_type, frame.current_status),
                            !.events = Append(frame.events, event),
                            !.step = frame.step + 1]
                     /\ UNCHANGED returned
    /\ UNCHANGED <<zone, patterns, randSeed, fakerSeed>>
    /\ UNCHANGED injVars

\* generate_order_lifecycle, line 69: return events
GenerateReturn ==
    /\ gpc = "loop"
    /\ frame.step > Len(frame.pattern.events)
    /\ gpc' = "idle"
    /\ frame' = NoFrame
    /\ returned' = Append(returned, CallRecord(frame, FALSE, frame.events))
    /\ UNCHANGED <<zone, patterns, randSeed, randTape, randPos, fakerSeed, fakerPos,
                   uuidCount, generators>>
    /\ UNCHANGED injVars

----------------------------------------------------------------------------
(* edge_case_injector.py *)

\* EdgeCaseInjector(duplicate, out_of_order, late_arrival), in percent
Injector(dup, ooo, late) ==
    [made |-> TRUE, duplicate_probability |-> dup,
     out_of_order_probability |-> ooo, late_arrival_probability |-> late]

\* the defaults of __init__ (lines 15-17), which are SIMULATION_CONFIG's
DefaultInjector == Injector(15, 20, 10)

\* the injectors explored: the default one, and the ones that never or
\* always take a policy
Injectors == {DefaultInjector, Injector(0, 0, 0), Injector(100, 0, 0),
              Injector(0, 100, 0), Injector(100, 100, 100)}

\* whether every draw of the injector has one outcome only
Deterministic(inj) ==
    /\ inj.duplicate_probability = 0
    /\ inj.late_arrival_probability = 0
    /\ inj.out_of_order_probability = 0

\* An input of the injector: the first n events of a HAPPY_PATH lifecycle
\* of order_0000, one second apart.
SampleEvent(k) ==
    LET event_type == ORDER_PATTERNS[1].events[k]
        event_ts == BaseTimestamp("order_0000") + k * Unit
        made == CreatePayload(event_type, FakerId("cust", 1),
                              FakerId("rest", 2), "PENDING", event_ts,
                              <<>>, <<0, 0, 0>>, 2 * k)
    IN EventRecord(k - 1, event_type, event_ts, "order_0000", made.payload)

SampleEvents(n) == [k \in 1 .. n |-> SampleEvent(k)]

\* the inputs explored for an injector: up to MaxEvents events, and the
\* whole five-event lifecycle for an injector without random outcomes
InjectInputs(inj) ==
    {SampleEvents(n) : n \in 0 .. MaxEvents}
    \cup (IF Deterministic(inj)
          THEN {SampleEvents(Len(ORDER_PATTERNS[1].events))} ELSE {})

\* (mutant) a copy that is given an event_id of its own
DeepCopyNewId(event) == [event EXCEPT !.event_id = @ + 1000]

\* copy.deepcopy(event): a new dictionary equal to event
DeepCopy(event) == event

\* (mutant) x[a] = x[b], the other half of the exchange forgotten
SwapOverwrite(x, a, b) == [k \in DOMAIN x |-> IF k = a THEN x[b] ELSE x[k]]

\* x with the elements at a and b exchanged
Swap(x, a, b) ==
    [k \in DOMAIN x |-> IF k = a THEN x[b] ELSE IF k = b THEN x[a] ELSE x[k]]

\* random.shuffle(x): for i in reversed(range(1, len(x))), exchange x[i]
\* and x[_randbelow(i + 1)]; rs are the len(x) - 1 values drawn, t the
\* number of the next one.
RECURSIVE ShuffleFrom(_, _, _)
ShuffleFrom(x, rs, t) ==
    IF t > Len(rs) THEN x
    ELSE LET idx == Len(x) - t
             j == RandBelow(rs[t], idx + 1)
         IN ShuffleFrom(Swap(x, idx + 1, j + 1), rs, t + 1)

Shuffle(x, rs) == ShuffleFrom(x, rs, 1)

\* the raw values explored for the draws of random.shuffle on n elements
ShuffleRaws(n) == [t \in 1 .. n - 1 |-> BelowRaws(n - t + 1)]

\* the raw values explored for random.random() < p: the least one of each
\* outcome
ChanceRaws(p) == {r \in {0, (p * Unit + 99) \div 100} : r < Unit}

\* line 43: random.random() < self.duplicate_probability
DuplicateFires(r, inj) == Chance(r, inj.duplicate_probability)

\* (mutant) the duplicate branch appends one copy
DuplicatedOnce(event) == <<DeepCopy(event)>>

\* lines 44-45: what the duplicate policy appends to main_events
Duplicated(event) == <<DeepCopy(event), DeepCopy(event)>>

\* (mutant) the late-arrival test without `and i > 0`
LateFiresAnyIndex(r, inj, idx) == Chance(r, inj.late_arrival_probability)

\* line 51: random.random() < self.late_arrival_probability and i > 0
LateFires(r, inj, idx) == Chance(r, inj.late_arrival_probability) /\ idx > 0

\* (mutant) late_arrivals.insert(0, late_event)
LatePrepended(late, event) == <<DeepCopy(event)>> \o late

\* lines 53-54: late_event = copy.deepcopy(event);
\* late_arrivals.append(late_event)
LateAppended(late, event) == Append(late, DeepCopy(event))

\* The values explored for the draws of one step of the injector: all of
\* them for a call on its own, a bounded number of them above the least in
\* a simulation run.
InjectorDrawSeqs(doms) ==
    IF rpc = "off" THEN FreeDrawSeqs(doms) ELSE DrawSeqs(doms)

\* inject_edge_cases is called with evs (lines 35-38)
InjectCall(evs) ==
    /\ ipc = "idle" /\ gpc = "idle"
    /\ injector.made
    /\ events' = evs
    /\ main_events' = <<>>
    /\ late_arrivals' = <<>>
    /\ i' = 0
    /\ shuffled' = <<>>
    /\ ipc' = "loop"
    /\ UNCHANGED injector
    /\ UNCHANGED genVars

\* (mutant) event = events.pop(i): the element is taken out of the list
ReadByPop(evs, idx) == [event |-> evs[idx + 1], events |-> RemoveAt(evs, idx + 1)]

\* line 40, event = events[i]: the element read, and the list after the
\* read, which indexing leaves as it was
ReadAt(evs, idx) == [event |-> evs[idx + 1], events |-> evs]

\* One iteration of the loop over events (lines 39-57): the duplicate
\* policy, then the late-arrival policy.  Both draws are made whatever i is.
InjectLoop ==
    /\ ipc = "loop"
    /\ i < Len(events)
    /\ LET event == ReadAt(events, i).event
       IN \E rs \in InjectorDrawSeqs(
                      <<ChanceRaws(injector.duplicate_probability),
                        ChanceRaws(injector.late_arrival_probability)>>) :
          /\ main_events' =
                 IF DuplicateFires(rs[1], injector)
                 THEN main_events \o Duplicated(event)
                 ELSE Append(main_events, event)
          /\ late_arrivals' =
                 IF LateFires(rs[2], injector, i)
                 THEN LateAppended(late_arrivals, event)
                 ELSE late_arrivals
          /\ randTape' = TapeAfter(rs)
          /\ randPos' = randPos + 2
    /\ events' = ReadAt(events, i).events
    /\ i' = i + 1
    /\ UNCHANGED <<injector, ipc, shuffled>>
    /\ UNCHANGED <<zone, patterns, randSeed, fakerSeed, fakerPos, uuidCount,
                   generators, gpc, frame, returned>>

\* (mutant) the section runs to the end of the list, shuffle_end forgotten
ShuffleWindowToEnd(main, shuffle_start, shuffle_size, rs) ==
    SubSeq(main, 1, shuffle_start)
    \o Shuffle(SubSeq(main, shuffle_start + 1, Len(main)), rs)

\* main_events[shuffle_start:shuffle_end] = the shuffled section
ShuffleWindow(main, shuffle_start, shuffle_size, rs) ==
    SubSeq(main, 1, shuffle_start)
    \o Shuffle(SubSeq(main, shuffle_start + 1, shuffle_start + shuffle_size), rs)
    \o SubSeq(main, shuffle_start + shuffle_size + 1, Len(main))

\* (mutant) random.randint(2, len(main_events))
ShuffleSizeUncapped(r, n) == RandInt(r, 2, n)

\* random.randint(2, min(5, len(main_events)))
ShuffleSize(r, n) == RandInt(r, 2, MinOf(5, n))

\* random.randint(0, len(main_events) - shuffle_size)
ShuffleStart(r, n, shuffle_size) == RandInt(r, 0, n - shuffle_size)

\* whether the out-of-order pass runs (line 60)
ShuffleFires(r, inj, main) ==
    Chance(r, inj.out_of_order_probability) /\ Len(main) > 2

\* The loop is over: the out-of-order pass (lines 59-70) and the return
\* (line 72).
InjectShuffle ==
    /\ ipc = "loop"
    /\ i >= Len(events)
    /\ LET n == Len(main_events) IN
       \E r1 \in {rs[1] : rs \in InjectorDrawSeqs(
                        <<ChanceRaws(injector.out_of_order_probability)>>)} :
          IF ShuffleFires(r1, injector, main_events)
          THEN \E r2 \in FreeDraw(2, RangeRaws(MinOf(5, n) - 1)) :
               LET shuffle_size == ShuffleSize(r2, n) IN
               \E r3 \in FreeDraw(3, RangeRaws(n - shuffle_size + 1)) :
               LET shuffle_start == ShuffleStart(r3, n, shuffle_size) IN
               \E rs \in InjectorDrawSeqs(<<{r1}, {r2}, {r3}>>
                                          \o ShuffleRaws(shuffle_size)) :
                  /\ main_events' =
                         ShuffleWindow(main_events, shuffle_start, shuffle_size,
                                       SubSeq(rs, 4, Len(rs)))
                  /\ shuffled' = <<shuffle_start, shuffle_size>>
                  /\ randTape' = TapeAfter(rs)
                  /\ randPos' = randPos + Len(rs)
          ELSE /\ randTape' = TapeAfter(<<r1>>)
               /\ randPos' = randPos + 1
               /\ UNCHANGED <<main_events, shuffled>>
    /\ ipc' = "returned"
    /\ UNCHANGED <<injector, events, late_arrivals, i>>
    /\ UNCHANGED <<zone, patterns, randSeed, fakerSeed, fakerPos, uuidCount,
                   generators, gpc, frame, returned>>

----------------------------------------------------------------------------
(* Specifications *)

\* The first generator is there, constructed as producer.py constructs it,
\* EventGenerator(); no injector.
InitGen ==
    /\ zone \in Zones
    /\ patterns \in Catalogs
    /\ randSeed = DefaultSeed
    /\ randTape = [s \in Seeds \cup {OsSeeded} |-> <<>>]
    /\ randPos = 0
    /\ fakerSeed = DefaultSeed
    /\ fakerPos = 0
    /\ uuidCount = 0
    /\ generators = [g \in Gens |->
           IF g = 1
           THEN [made |-> TRUE, seed |-> DefaultSeed, order_items |-> <<>>]
           ELSE NotMade]
    /\ gpc = "idle"
    /\ frame = NoFrame
    /\ returned = <<>>
    /\ injector = [made |-> FALSE]
    /\ ipc = "idle"
    /\ events = <<>>
    /\ main_events = <<>>
    /\ late_arrivals = <<>>
    /\ i = 0
    /\ shuffled = <<>>
    /\ rpc = "off"
    /\ num_orders = 0
    /\ order_num = 0
    /\ all_late_arrivals = <<>>
    /\ sent = 0
    /\ injected = <<>>
    /\ log = <<>>

NextGen ==
    \/ /\ \E g \in Gens, order_id \in OrderIds :
              GenerateCall(g, order_id, BaseTimestamp(order_id))
       /\ UNCHANGED runVars
    \/ GenerateStep /\ UNCHANGED runVars
    \/ GenerateReturn /\ UNCHANGED runVars

\* One generator, asked for lifecycles.
SpecGen == InitGen /\ [][NextGen]_vars

NextSeeded ==
    \/ /\ \E g \in Gens, seed \in Seeds : Construct(g, seed)
       /\ UNCHANGED runVars
    \/ NextGen

\* Two generators: the second is constructed at any moment between calls,
\* with any seed, which seeds the shared streams again.
SpecSeeded == InitGen /\ [][NextSeeded]_vars

\* An injector is there, and no generator: the streams are as the
\* interpreter seeded them.
InitInj ==
    /\ zone = UTC
    /\ patterns = ORDER_PATTERNS
    /\ randSeed = OsSeeded
    /\ randTape = [s \in Seeds \cup {OsSeeded} |-> <<>>]
    /\ randPos = 0
    /\ fakerSeed = OsSeeded
    /\ fakerPos = 0
    /\ uuidCount = 0
    /\ generators = [g \in Gens |-> NotMade]
    /\ gpc = "idle"
    /\ frame = NoFrame
    /\ returned = <<>>
    /\ injector \in Injectors
    /\ ipc = "idle"
    /\ events = <<>>
    /\ main_events = <<>>
    /\ late_arrivals = <<>>
    /\ i = 0
    /\ shuffled = <<>>
    /\ rpc = "off"
    /\ num_orders = 0
    /\ order_num = 0
    /\ all_late_arrivals = <<>>
    /\ sent = 0
    /\ injected = <<>>
    /\ log = <<>>

NextInj ==
    \/ /\ \E evs \in InjectInputs(injector) : InjectCall(evs)
       /\ UNCHANGED runVars
    \/ InjectLoop /\ UNCHANGED runVars
    \/ InjectShuffle /\ UNCHANGED runVars

\* One injector, given one list of events.
SpecInj == InitInj /\ [][NextInj]_vars

----------------------------------------------------------------------------
----------------------------------------------------------------------------
(* producer.py: OrderProducer.run_simulation *)

\* SIMULATION_CONFIG['event_delay_seconds'] = 1.0, in ticks
EventDelay == Unit

\* SIMULATION_CONFIG['late_arrival_delay_seconds'] = 5.0, in ticks
LateArrivalDelay == 5 * Unit

\* the delay_seconds=0.5 of the late sends (line 177), in ticks
LateSendDelay == Unit \div 2

\* the catalogs a run is explored with
RunCatalogs == {ORDER_PATTERNS, LEDGER_PATTERNS, UNKNOWN_TYPE_PATTERNS}

\* the calls run_simulation and send_event make on time.sleep and on the
\* Kafka producer
Sleep(ticks) == [call |-> "sleep", ticks |-> ticks]
Produce(key, value) ==
    [call |-> "produce", topic |-> "orders.events.raw", key |-> key,
     value |-> value]
Poll == [call |-> "poll"]
Flush == [call |-> "flush"]

\* self.avro_serializer(event, serialization_context): the bytes of event
Serialize(event) == <<"avro", event>>

\* (mutant) the message is keyed by the type of the event, not by the order
MessageKeyEventType(event) == <<"utf-8", event.event_type>>

\* key = event['order_id'].encode('utf-8')
MessageKey(event) == <<"utf-8", event.order_id>>

\* how a send_event call may end: the message was handed over; the
\* serializer or produce raised; poll raised after the message was handed
\* over; the user interrupted the call before the message was handed over
\* (in the sleep), after produce returned and before poll was called, or
\* while poll ran.  Every exception is printed and raised again (lines
\* 112-114); a KeyboardInterrupt is no Exception and leaves send_event and
\* run_simulation as it is.
SendOutcomes == {"sent", "raised", "raised_in_poll", "interrupted",
                 "interrupted_after_produce", "interrupted_in_poll"}

\* send_event(event, delay_seconds) (lines 88-114): the calls it makes
SendCalls(event, delay_seconds, outcome) ==
    (IF delay_seconds > 0 THEN <<Sleep(delay_seconds)>> ELSE <<>>)
    \o (IF outcome \in {"raised", "interrupted"} THEN <<>>
        ELSE IF outcome = "interrupted_after_produce"
        THEN <<Produce(MessageKey(event), Serialize(event))>>
        ELSE <<Produce(MessageKey(event), Serialize(event)), Poll>>)

\* how run_simulation ends when send_event ended with outcome
Ended(outcome) ==
    IF outcome \in {"interrupted", "interrupted_after_produce",
                    "interrupted_in_poll"}
    THEN "interrupted"
    ELSE "raised"

\* how a call of producer.flush(timeout=10) or of time.sleep may end in
\* run_simulation: it returns, it raises, the user interrupts it
BlockingOutcomes == {"returned", "raised", "interrupted"}

\* (mutant) the loop takes the event off the front of the list
NextEventPopped(evs, k) == [event |-> evs[1], events |-> Tail(evs)]

\* `for event in main_events` and `for event in all_late_arrivals` (lines
\* 158, 176): the event of the pass after k passes, and the list after it
NextEvent(evs, k) == [event |-> evs[k + 1], events |-> evs]

\* lines 141-148: the next order's lifecycle is asked for
RunGenerate ==
    /\ rpc = "orders"
    /\ order_num < num_orders
    /\ GenerateCall(1, OrderIdOf(order_num), BaseTimestamp(OrderIdOf(order_num)))
    /\ rpc' = "generating"
    /\ UNCHANGED <<num_orders, order_num, all_late_arrivals, sent, injected,
                   log>>

\* generate_order_lifecycle runs
RunGenerateStep ==
    /\ rpc = "generating"
    /\ GenerateStep
    /\ UNCHANGED runVars

RunGenerateReturn ==
    /\ rpc = "generating"
    /\ GenerateReturn
    /\ UNCHANGED runVars

\* A KeyboardInterrupt is raised in lines 31-44 of generate_order_lifecycle,
\* after n of: the choice of the pattern, the reset of the ledger, the two
\* values read from Faker.  The call ends.
RunGenerateInterruptedAtCall ==
    /\ rpc = "orders"
    /\ order_num < num_orders
    /\ gpc = "idle" /\ ipc = "idle"
    /\ Len(returned) < MaxCalls
    /\ ~ChoicesRaises(patterns)
    /\ LET order_id == OrderIdOf(order_num)
           f0 == [self |-> 1, order_id |-> order_id,
                  base_timestamp |-> BaseTimestamp(order_id),
                  rand_at |-> <<randSeed, randPos>>,
                  faker_at |-> <<fakerSeed, fakerPos>>]
       IN \E rs \in DrawSeqs(<<ChoicesRaws(patterns)>>), n \in 0 .. 4 :
             /\ randTape' = IF n >= 1 THEN TapeAfter(rs) ELSE randTape
             /\ randPos' = IF n >= 1 THEN randPos + 1 ELSE randPos
             /\ generators' =
                    IF n >= 2
                    THEN [generators EXCEPT ![1].order_items =
                             LedgerReset(@, order_id)]
                    ELSE generators
             /\ fakerPos' = fakerPos + (IF n >= 3 THEN n - 2 ELSE 0)
             /\ returned' = Append(returned,
                    [CallRecord(f0, TRUE, <<>>) EXCEPT !.interrupted = TRUE])
    /\ rpc' = "generating"
    /\ UNCHANGED <<zone, patterns, randSeed, fakerSeed, uuidCount, gpc, frame>>
    /\ UNCHANGED injVars
    /\ UNCHANGED <<num_orders, order_num, all_late_arrivals, sent, injected,
                   log>>

\* A KeyboardInterrupt is raised in the loop of generate_order_lifecycle
\* (lines 46-69): before the step (n = 0), after the gap was drawn (1),
\* after uuid.uuid4() (2), after the first n - 2 effects of _create_payload,
\* or at the return.  The call ends; the event in the making is lost.
RunGenerateInterrupted ==
    /\ rpc = "generating" /\ gpc = "loop"
    /\ gpc' = "idle"
    /\ frame' = NoFrame
    /\ returned' = Append(returned,
           [CallRecord(frame, TRUE, <<>>) EXCEPT !.interrupted = TRUE])
    /\ IF frame.step > Len(frame.pattern.events)
       THEN UNCHANGED <<randTape, randPos, fakerPos, uuidCount, generators>>
       ELSE LET event_type == frame.pattern.events[frame.step]
                ledger == generators[frame.self].order_items
                items == DictGet(ledger, frame.order_id, <<>>)
                effects == Effects(event_type, items)
                fresh == <<EndRaws>> \o PayloadDraws(event_type, items)
            IN \E rs \in DrawSeqs(fresh), n \in 0 .. 2 + Len(effects) :
               LET done == SubSeq(effects, 1, IF n > 2 THEN n - 2 ELSE 0)
                   nr == (IF n >= 1 THEN 1 ELSE 0) + Count(done, "rand")
                   event_ts == frame.current_ts + GapTicks(rs[1])
                   made == CreatePayload(event_type, frame.customer_id,
                               frame.restaurant_id, frame.current_status,
                               event_ts, items, Tail(rs), fakerPos)
               IN /\ randTape' = TapeAfter(SubSeq(rs, 1, nr))
                  /\ randPos' = randPos + nr
                  /\ uuidCount' = uuidCount + (IF n >= 2 THEN 1 ELSE 0)
                  /\ fakerPos' = fakerPos + Count(done, "faker")
                  /\ generators' =
                         IF Count(done, "ledger") > 0
                         THEN [generators EXCEPT ![frame.self].order_items =
                                  DictSet(@, frame.order_id, made.items)]
                         ELSE generators
    /\ UNCHANGED <<zone, patterns, randSeed, fakerSeed>>
    /\ UNCHANGED injVars
    /\ UNCHANGED runVars

\* generate_order_lifecycle raised an exception: run_simulation catches
\* nothing
RunGenerateRaised ==
    /\ rpc = "generating" /\ gpc = "idle"
    /\ returned[Len(returned)].raised
    /\ ~returned[Len(returned)].interrupted
    /\ rpc' = "raised"
    /\ UNCHANGED <<num_orders, order_num, all_late_arrivals, sent, injected,
                   log>>
    /\ UNCHANGED <<genVars, injVars>>

\* line 154: inject_edge_cases is called with the events generated
RunInject ==
    /\ rpc = "generating" /\ gpc = "idle"
    /\ ~returned[Len(returned)].raised
    /\ InjectCall(returned[Len(returned)].events)
    /\ rpc' = "injecting"
    /\ UNCHANGED <<num_orders, order_num, all_late_arrivals, sent, injected,
                   log>>

\* inject_edge_cases runs
RunInjectLoop ==
    /\ rpc = "injecting"
    /\ InjectLoop
    /\ UNCHANGED runVars

RunInjectShuffle ==
    /\ rpc = "injecting"
    /\ InjectShuffle
    /\ UNCHANGED runVars

\* A KeyboardInterrupt is raised in inject_edge_cases.  In an iteration of
\* the loop (lines 39-57): before it (n = 0), after the first draw (1),
\* after the first append to main_events (2), after the second one of a
\* duplicate (3), after the second draw (4), after the append to
\* late_arrivals (5).  In the out-of-order pass (lines 59-72): after k of
\* its draws, main_events not yet assigned, or after line 68 has assigned
\* the shuffled section (at the print of line 70 or the return of line 72).
\* The call ends; its lists are lost to run_simulation.
RunInjectInterrupted ==
    /\ rpc = "injecting" /\ ipc = "loop"
    /\ ipc' = "interrupted"
    /\ IF i < Len(events)
       THEN LET event == ReadAt(events, i).event
            IN \E rs \in InjectorDrawSeqs(
                           <<ChanceRaws(injector.duplicate_probability),
                             ChanceRaws(injector.late_arrival_probability)>>),
                  n \in 0 .. 5 :
               LET copies == IF DuplicateFires(rs[1], injector)
                             THEN Duplicated(event) ELSE <<event>>
                   appended == IF n < 2 THEN 0
                               ELSE IF n = 2 THEN 1 ELSE Len(copies)
                   nr == IF n = 0 THEN 0 ELSE IF n < 4 THEN 1 ELSE 2
               IN /\ main_events' = main_events \o SubSeq(copies, 1, appended)
                  /\ late_arrivals' =
                         IF n = 5 /\ LateFires(rs[2], injector, i)
                         THEN LateAppended(late_arrivals, event)
                         ELSE late_arrivals
                  /\ randTape' = TapeAfter(SubSeq(rs, 1, nr))
                  /\ randPos' = randPos + nr
                  /\ UNCHANGED shuffled
       ELSE LET n == Len(main_events) IN
            \E r1 \in {rs[1] : rs \in InjectorDrawSeqs(
                            <<ChanceRaws(injector.out_of_order_probability)>>)} :
               /\ IF ShuffleFires(r1, injector, main_events)
                  THEN \E r2 \in FreeDraw(2, RangeRaws(MinOf(5, n) - 1)) :
                       LET shuffle_size == ShuffleSize(r2, n) IN
                       \E r3 \in FreeDraw(3, RangeRaws(n - shuffle_size + 1)) :
                       LET shuffle_start == ShuffleStart(r3, n, shuffle_size) IN
                       \E rs \in InjectorDrawSeqs(<<{r1}, {r2}, {r3}>>
                                                  \o ShuffleRaws(shuffle_size)) :
                       \E k \in 0 .. Len(rs) + 1 :
                          /\ randTape' = TapeAfter(SubSeq(rs, 1, MinOf(k, Len(rs))))
                          /\ randPos' = randPos + MinOf(k, Len(rs))
                          /\ IF k > Len(rs)
                             THEN /\ main_events' =
                                         ShuffleWindow(main_events, shuffle_start,
                                                       shuffle_size,
                                                       SubSeq(rs, 4, Len(rs)))
                                  /\ shuffled' = <<shuffle_start, shuffle_size>>
                             ELSE UNCHANGED <<main_events, shuffled>>
                  ELSE \E k \in 0 .. 1 :
                          /\ randTape' = TapeAfter(SubSeq(<<r1>>, 1, k))
                          /\ randPos' = randPos + k
                          /\ UNCHANGED <<main_events, shuffled>>
               /\ UNCHANGED late_arrivals
    /\ UNCHANGED <<injector, events, i>>
    /\ UNCHANGED <<zone, patterns, randSeed, fakerSeed, fakerPos, uuidCount,
                   generators, gpc, frame, returned>>
    /\ UNCHANGED runVars

\* A KeyboardInterrupt leaves run_simulation, which catches none: raised
\* between two of its steps, or come out of generate_order_lifecycle or
\* inject_edge_cases.  main() prints a line and exits (lines 195-197).
RunInterrupt ==
    /\ rpc \in {"orders", "generating", "injecting", "sending", "flushed",
                "late"}
    /\ gpc = "idle" /\ ipc # "loop"
    /\ rpc = "generating" /\ returned[Len(returned)].raised =>
           returned[Len(returned)].interrupted
    /\ rpc' = "interrupted"
    /\ UNCHANGED <<num_orders, order_num, all_late_arrivals, sent, injected,
                   log>>
    /\ UNCHANGED <<genVars, injVars>>

\* (mutant) all_late_arrivals = late_arrivals
ExtendedByReplacing(all_late, late) == late

\* line 155: all_late_arrivals.extend(late_arrivals)
Extended(all_late, late) == all_late \o late

\* lines 154-155: inject_edge_cases returned main_events and late_arrivals;
\* the late ones are added to all_late_arrivals
RunInjected ==
    /\ rpc = "injecting" /\ ipc = "returned"
    /\ ipc' = "idle"
    /\ all_late_arrivals' = Extended(all_late_arrivals, late_arrivals)
    /\ injected' = Append(injected,
                          [main |-> main_events, late |-> late_arrivals])
    /\ sent' = 0
    /\ rpc' = "sending"
    /\ UNCHANGED <<num_orders, order_num, log>>
    /\ UNCHANGED <<injector, events, main_events, late_arrivals, i, shuffled>>
    /\ UNCHANGED genVars

\* lines 158-159: one main event is sent; an exception ends the run
RunSendMain ==
    /\ rpc = "sending"
    /\ sent < Len(main_events)
    /\ \E outcome \in SendOutcomes :
          /\ log' = log \o SendCalls(NextEvent(main_events, sent).event,
                                     EventDelay, outcome)
          /\ IF outcome = "sent"
             THEN sent' = sent + 1 /\ rpc' = "sending"
             ELSE sent' = sent /\ rpc' = Ended(outcome)
    /\ main_events' = NextEvent(main_events, sent).events
    /\ UNCHANGED <<num_orders, order_num, all_late_arrivals, injected>>
    /\ UNCHANGED <<injector, ipc, events, late_arrivals, i, shuffled>>
    /\ UNCHANGED genVars

\* the main events of the order are sent: on to the next order
RunNextOrder ==
    /\ rpc = "sending"
    /\ sent >= Len(main_events)
    /\ order_num' = order_num + 1
    /\ rpc' = "orders"
    /\ UNCHANGED <<num_orders, all_late_arrivals, sent, injected, log>>
    /\ UNCHANGED <<genVars, injVars>>

\* (mutant) no wait before the late events
LateWaitNone == <<>>

\* line 173: time.sleep(SIMULATION_CONFIG['late_arrival_delay_seconds'])
LateWait == <<Sleep(LateArrivalDelay)>>

\* lines 182-187: the summary is printed and run_simulation returns, unless
\* a KeyboardInterrupt is raised before it does
Returning == {"done", "interrupted"}

\* lines 163-167: every order is done; the producer is flushed.  The log
\* has a Flush for a flush that returned.  With no late events the run is
\* over (line 170).
RunFlush ==
    /\ rpc = "orders"
    /\ order_num >= num_orders
    /\ \E outcome \in BlockingOutcomes :
          IF outcome = "returned"
          THEN /\ log' = Append(log, Flush)
               /\ IF all_late_arrivals # <<>> THEN rpc' = "flushed"
                  ELSE rpc' \in Returning
          ELSE /\ log' = log
               /\ rpc' = Ended(outcome)
    /\ sent' = 0
    /\ UNCHANGED <<num_orders, order_num, all_late_arrivals, injected>>
    /\ UNCHANGED <<genVars, injVars>>

\* lines 170-173: there are late events; the run waits once before it
\* sends them
RunLateWait ==
    /\ rpc = "flushed"
    /\ log' = log \o LateWait
    /\ \E outcome \in BlockingOutcomes \ {"raised"} :
          rpc' = IF outcome = "returned" THEN "late" ELSE Ended(outcome)
    /\ UNCHANGED <<num_orders, order_num, all_late_arrivals, sent, injected>>
    /\ UNCHANGED <<genVars, injVars>>

\* lines 176-177: one late event is sent; an exception ends the run
RunSendLate ==
    /\ rpc = "late"
    /\ sent < Len(all_late_arrivals)
    /\ \E outcome \in SendOutcomes :
          /\ log' = log \o SendCalls(NextEvent(all_late_arrivals, sent).event,
                                     LateSendDelay, outcome)
          /\ IF outcome = "sent"
             THEN sent' = sent + 1 /\ rpc' = "late"
             ELSE sent' = sent /\ rpc' = Ended(outcome)
    /\ all_late_arrivals' = NextEvent(all_late_arrivals, sent).events
    /\ UNCHANGED <<num_orders, order_num, injected>>
    /\ UNCHANGED <<genVars, injVars>>

\* lines 179-180: the late events are sent; the producer is flushed
RunFlushLate ==
    /\ rpc = "late"
    /\ sent >= Len(all_late_arrivals)
    /\ \E outcome \in BlockingOutcomes :
          IF outcome = "returned"
          THEN log' = Append(log, Flush) /\ rpc' \in Returning
          ELSE log' = log /\ rpc' = Ended(outcome)
    /\ UNCHANGED <<num_orders, order_num, all_late_arrivals, sent, injected>>
    /\ UNCHANGED <<genVars, injVars>>

\* OrderProducer() (lines 55-60): a generator with the default seed, an
\* injector with the probabilities of SIMULATION_CONFIG; run_simulation
\* begins.
InitRun ==
    /\ zone \in Zones
    /\ patterns \in RunCatalogs
    /\ randSeed = DefaultSeed
    /\ randTape = [s \in Seeds \cup {OsSeeded} |-> <<>>]
    /\ randPos = 0
    /\ fakerSeed = DefaultSeed
    /\ fakerPos = 0
    /\ uuidCount = 0
    /\ generators = [g \in Gens |->
           IF g = 1
           THEN [made |-> TRUE, seed |-> DefaultSeed, order_items |-> <<>>]
           ELSE NotMade]
    /\ gpc = "idle"
    /\ frame = NoFrame
    /\ returned = <<>>
    /\ injector = DefaultInjector
    /\ ipc = "idle"
    /\ events = <<>>
    /\ main_events = <<>>
    /\ late_arrivals = <<>>
    /\ i = 0
    /\ shuffled = <<>>
    /\ rpc = "orders"
    /\ num_orders \in 0 .. MaxCalls
    /\ order_num = 0
    /\ all_late_arrivals = <<>>
    /\ sent = 0
    /\ injected = <<>>
    /\ log = <<>>

NextRun ==
    \/ RunGenerate
    \/ RunGenerateStep
    \/ RunGenerateReturn
    \/ RunGenerateInterruptedAtCall
    \/ RunGenerateInterrupted
    \/ RunGenerateRaised
    \/ RunInject
    \/ RunInjectLoop
    \/ RunInjectShuffle
    \/ RunInjectInterrupted
    \/ RunInterrupt
    \/ RunInjected
    \/ RunSendMain
    \/ RunNextOrder
    \/ RunFlush
    \/ RunLateWait
    \/ RunSendLate
    \/ RunFlushLate

\* One simulation run.
SpecRun == InitRun /\ [][NextRun]_vars

----------------------------------------------------------------------------
(* Properties of the generator *)

\* the event sequences built so far, each with the base_timestamp of its
\* call: the returned ones and the one under construction
Calls == {[events |-> c.events, base_timestamp |-> c.base_timestamp] :
              c \in {c \in Range(returned) : ~c.raised}}
         \cup (IF gpc = "loop"
               THEN {[events |-> frame.events,
                      base_timestamp |-> frame.base_timestamp]}
               ELSE {})

IsAdded(e) == e.event_type = "ORDER_ITEM_ADDED"
IsRemoved(e) == e.event_type = "ORDER_ITEM_REMOVED"

\* The items an event sequence leaves present after its first k events, read
\* from the payloads alone: each ORDER_ITEM_ADDED adds its item, each
\* ORDER_ITEM_REMOVED takes away the item of its item_id.
RECURSIVE Present(_, _)
Present(evs, k) ==
    IF k = 0 THEN <<>>
    ELSE LET before == Present(evs, k - 1)
             e == evs[k]
         IN IF IsAdded(e) THEN Append(before, e.payload)
            ELSE IF IsRemoved(e)
            THEN SelectSeq(before, LAMBDA it : it.item_id # e.payload.item_id)
            ELSE before

PresentIds(evs, k) == {it.item_id : it \in Range(Present(evs, k))}

\* event_ts is strictly increasing from one event of c to the next, and the
\* first event_ts is later than the base timestamp
Increasing(c) ==
    /\ \A k \in 1 .. Len(c.events) - 1 :
           c.events[k].event_ts < c.events[k + 1].event_ts
    /\ c.events # <<>> =>
           c.events[1].event_ts > Millis(c.base_timestamp)

\* C1: in every sequence generate_order_lifecycle builds, event_ts is
\* strictly increasing from one event to the next, and the first event_ts
\* is later than the base timestamp, in any time zone.
C1_TimestampsIncrease == \A c \in Calls : Increasing(c)

\* no wall-clock reading of a call with this base timestamp is one the
\* clock of the zone never shows: the zone does not put its clocks forward,
\* or the call begins after it did
ClearOfSkipped(base_timestamp) ==
    \/ zone.after <= zone.before
    \/ base_timestamp \div Unit >= zone.at + zone.after

\* What the code does: a sequence none of whose wall-clock readings the
\* clock skips has event_ts strictly increasing, the first later than the
\* base timestamp.
TimestampsIncreaseClearOfSkipped ==
    \A c \in Calls : ClearOfSkipped(c.base_timestamp) => Increasing(c)

\* a returned seven-event lifecycle whose gaps are not all the same, begun
\* after the clocks of its zone were put forward
TimestampsIncreaseClearOfSkipped_Witness ==
    /\ zone = SpringForward
    /\ \E c \in Range(returned) :
           /\ ClearOfSkipped(c.base_timestamp)
           /\ ~c.raised /\ Len(c.events) = 7
           /\ c.events[2].event_ts - c.events[1].event_ts
                  # c.events[3].event_ts - c.events[2].event_ts

\* C6: an ORDER_ITEM_REMOVED emitted while the ledger is non-empty names an
\* item that an earlier ORDER_ITEM_ADDED of the sequence added and that no
\* later event removed; the item then leaves the ledger (the ledger of the
\* running call holds exactly the items the sequence leaves present); and
\* the same item_id is not removed twice without an ORDER_ITEM_ADDED for it
\* in between.
C6_RemovedWasPresent ==
    /\ \A c \in Calls : \A k \in DOMAIN c.events :
           IsRemoved(c.events[k]) =>
               /\ PresentIds(c.events, k - 1) # {} =>
                      c.events[k].payload.item_id \in PresentIds(c.events, k - 1)
               /\ \A j \in 1 .. k - 1 :
                      (/\ IsRemoved(c.events[j])
                       /\ c.events[j].payload.item_id
                              = c.events[k].payload.item_id)
                      => \E m \in j + 1 .. k - 1 :
                             /\ IsAdded(c.events[m])
                             /\ c.events[m].payload.item_id
                                    = c.events[k].payload.item_id
    /\ gpc = "loop" =>
           {it.item_id :
               it \in Range(generators[frame.self].order_items[frame.order_id])}
               = PresentIds(frame.events, Len(frame.events))

\* C6 witness: a returned sequence with two removals from a non-empty
\* ledger, of different items
C6_Witness ==
    \E c \in Range(returned) : \E j, k \in DOMAIN c.events :
        /\ ~c.raised /\ j < k
        /\ IsRemoved(c.events[j]) /\ IsRemoved(c.events[k])
        /\ c.events[j].payload.item_id \in PresentIds(c.events, j - 1)
        /\ c.events[k].payload.item_id \in PresentIds(c.events, k - 1)

\* sum of quantity x price over the items a sequence leaves present
PresentTotal(evs, k) ==
    SumSeq([n \in DOMAIN Present(evs, k) |->
               Present(evs, k)[n].quantity * Present(evs, k)[n].price])

\* C7: the total_amount of an ORDER_COMPLETED is the sum of quantity x
\* price over the items added and not removed before it in its sequence;
\* when none is left, it is a fallback amount above zero.
C7_TotalAmount ==
    \A c \in Calls : \A k \in DOMAIN c.events :
        c.events[k].event_type = "ORDER_COMPLETED" =>
            IF Present(c.events, k - 1) # <<>>
            THEN c.events[k].payload.total_amount = PresentTotal(c.events, k - 1)
            ELSE c.events[k].payload.total_amount > 0

\* C7 witness: a completed order from which an item was removed, with two
\* items left, one of them in a quantity above one
C7_Witness ==
    \E c \in Range(returned) : \E k \in DOMAIN c.events :
        /\ ~c.raised
        /\ c.events[k].event_type = "ORDER_COMPLETED"
        /\ Len(Present(c.events, k - 1)) = 2
        /\ \E j \in 1 .. k - 1 : IsRemoved(c.events[j])
        /\ \E it \in Range(Present(c.events, k - 1)) : it.quantity > 1

----------------------------------------------------------------------------
(* Properties of the injector *)

\* number of elements of s with the event_id id
IdCount(s, id) == Cardinality({k \in DOMAIN s : s[k].event_id = id})

Ids(s) == {s[k].event_id : k \in DOMAIN s}

\* number of elements of s equal to x
Occurrences(s, x) == Cardinality({k \in DOMAIN s : s[k] = x})

IsPermutation(a, b) ==
    /\ Len(a) = Len(b)
    /\ \A x \in Range(a) \cup Range(b) : Occurrences(a, x) = Occurrences(b, x)

\* main is evs in order, each event once or as two adjacent copies
RECURSIVE InOrderOnceOrTwice(_, _)
InOrderOnceOrTwice(main, evs) ==
    IF evs = <<>> THEN main = <<>>
    ELSE /\ main # <<>>
         /\ Head(main) = Head(evs)
         /\ \/ InOrderOnceOrTwice(Tail(main), Tail(evs))
            \/ /\ Len(main) >= 2
               /\ main[2] = Head(evs)
               /\ InOrderOnceOrTwice(Tail(Tail(main)), Tail(evs))

\* the step that ends inject_edge_cases: the out-of-order pass and the return
ShufflePass == ipc = "loop" /\ ipc' = "returned"

\* C2: when inject_edge_cases returns, late holds no event_id more often
\* than the input does, and every event_id of late is in main.
C2_LateWithinInput ==
    ipc = "returned" =>
        \A id \in Ids(late_arrivals) :
            /\ IdCount(late_arrivals, id) <= IdCount(events, id)
            /\ IdCount(main_events, id) >= 1

\* C2 witness: a call that returned two late events
C2_Witness == ipc = "returned" /\ Len(late_arrivals) = 2

\* C3: when inject_edge_cases returns, every element of main equals an
\* input event, every input event_id is in main once or twice and no other
\* event_id is; and the out-of-order pass leaves in main the elements it
\* found there, each as often as before.
C3_MainIsInputRearranged ==
    /\ [](ipc = "returned" =>
            /\ \A k \in DOMAIN main_events : main_events[k] \in Range(events)
            /\ \A id \in Ids(events) : IdCount(main_events, id) \in {1, 2}
            /\ Ids(main_events) \subseteq Ids(events))
    /\ [][ShufflePass => IsPermutation(main_events', main_events)]_vars

\* C3 witness: a returned main with one event once, another twice, and out
\* of the input order
C3_Witness ==
    /\ ipc = "returned" /\ shuffled # <<>>
    /\ \E a, b \in Ids(events) :
           IdCount(main_events, a) = 1 /\ IdCount(main_events, b) = 2
    /\ ~InOrderOnceOrTwice(main_events, events)

\* C4: the first input event is never in late: late has at most
\* len(events) - 1 elements for a non-empty input, and none for an input of
\* one event.
C4_FirstNeverLate ==
    (ipc \in {"loop", "returned"} /\ events # <<>>) =>
        /\ \A k \in DOMAIN late_arrivals :
               late_arrivals[k].event_id # events[1].event_id
        /\ Len(late_arrivals) <= Len(events) - 1
        /\ Len(events) = 1 => late_arrivals = <<>>

\* C4 witness: late-arrival probability 1, and every event but the first is
\* in late
C4_Witness ==
    /\ ipc = "returned"
    /\ injector.late_arrival_probability = 100
    /\ Len(events) = MaxEvents
    /\ Len(late_arrivals) = Len(events) - 1

\* C8: with the three probabilities 0, main is the input, in length, order
\* and content, and late is empty.
C8_NoPolicyNoChange ==
    (ipc = "returned" /\ Deterministic(injector)) =>
        /\ main_events = events
        /\ late_arrivals = <<>>

\* C8 witness: the five events of a HAPPY_PATH lifecycle went through
C8_Witness ==
    /\ ipc = "returned" /\ Deterministic(injector)
    /\ Len(events) = 5
    /\ [k \in 1 .. 5 |-> events[k].event_type] = ORDER_PATTERNS[1].events

\* C9: as long as the out-of-order pass has not shuffled, main is the input
\* walked so far, in order, each event once or as two adjacent copies; with
\* duplicate probability 1 and the other two 0, an input of one event
\* returns as two copies of it in main and an empty late.
C9_DuplicatesAdjacent ==
    /\ (ipc \in {"loop", "returned"} /\ shuffled = <<>>) =>
           InOrderOnceOrTwice(main_events, SubSeq(events, 1, i))
    /\ (/\ ipc = "returned"
        /\ injector = Injector(100, 0, 0)
        /\ Len(events) = 1) =>
           /\ main_events = <<events[1], events[1]>>
           /\ late_arrivals = <<>>

\* C9 witness: the input of one event, duplicated
C9_Witness ==
    /\ ipc = "returned"
    /\ injector = Injector(100, 0, 0)
    /\ Len(events) = 1
    /\ Len(main_events) = 2
    /\ main_events[1].event_id = main_events[2].event_id

\* C10: the out-of-order pass changes main inside one window only, of
\* length 2 to min(5, len(main)), that lies within main: the elements
\* outside keep their index; and it does not run on a main of 2 elements or
\* fewer.
C10_ShuffleWindow ==
    [][ShufflePass =>
          LET n == Len(main_events) IN
          /\ Len(main_events') = n
          /\ IF shuffled' = <<>> THEN main_events' = main_events
             ELSE LET shuffle_start == shuffled'[1]
                      shuffle_size == shuffled'[2]
                  IN /\ n > 2
                     /\ 2 <= shuffle_size /\ shuffle_size <= MinOf(5, n)
                     /\ 0 <= shuffle_start /\ shuffle_start + shuffle_size <= n
                     /\ \A k \in 1 .. n :
                            (k <= shuffle_start
                             \/ k > shuffle_start + shuffle_size)
                            => main_events'[k] = main_events[k]]_vars

\* C10 witness: a window of five in a main of six, which it put out of order
C10_Witness ==
    /\ ipc = "returned"
    /\ Len(main_events) = 6
    /\ shuffled # <<>> /\ shuffled[2] = 5
    /\ ~InOrderOnceOrTwice(main_events, events)

----------------------------------------------------------------------------
(* Properties of seeding *)

\* two completed calls, on different instances constructed with the same
\* seed, with the same order_id and base_timestamp
SameSeedCalls(a, b) ==
    /\ returned[a].self # returned[b].self
    /\ returned[a].seed = returned[b].seed
    /\ returned[a].order_id = returned[b].order_id
    /\ returned[a].base_timestamp = returned[b].base_timestamp
    /\ ~returned[a].raised /\ ~returned[b].raised

\* the call was the first use of the streams its instance seeded
FirstUse(c) == c.rand_at = <<c.seed, 0>> /\ c.faker_at = <<c.seed, 0>>

WithoutEventId(evs) ==
    [k \in DOMAIN evs |-> [f \in DOMAIN evs[k] \ {"event_id"} |-> evs[k][f]]]

\* C5: two instances constructed with the same seed return the same events,
\* event_id included, for the same order_id and base_timestamp.
C5_SameSeedSameEvents ==
    \A a, b \in DOMAIN returned :
        SameSeedCalls(a, b) => returned[a].events = returned[b].events

\* What seeding does give: when each of the two calls is the first use of
\* the streams its instance seeded, the events agree in every field but
\* event_id.
SeededFieldsRepeat ==
    \A a, b \in DOMAIN returned :
        (SameSeedCalls(a, b) /\ FirstUse(returned[a]) /\ FirstUse(returned[b]))
        => WithoutEventId(returned[a].events) = WithoutEventId(returned[b].events)

\* two such calls were made, and their events differ in event_id alone
SeededFieldsRepeat_Witness ==
    \E a, b \in DOMAIN returned :
        /\ SameSeedCalls(a, b) /\ FirstUse(returned[a]) /\ FirstUse(returned[b])
        /\ returned[a].events # returned[b].events
        /\ Len(returned[a].events) = 7

----------------------------------------------------------------------------
(* The out-of-order pass on three events *)

\* the call returned; it was given three events, duplicated none, its
\* out-of-order probability is 1 and the pass chose the window of length 2
\* at offset 0
WindowOfTwoAtZero ==
    /\ ipc = "returned"
    /\ injector.out_of_order_probability = 100
    /\ Len(events) = 3 /\ Len(main_events) = 3
    /\ shuffled = <<0, 2>>

\* C11 as stated: in that case the first two elements of main are the
\* first two input events exchanged, and the third is in its place.
C11_FirstTwoSwapped ==
    WindowOfTwoAtZero => main_events = <<events[2], events[1], events[3]>>

\* C11, amended: in that case the first two elements of main are the first
\* two input events in one of their two orders, exchanged or as they were
\* (random.shuffle of two elements exchanges them or leaves them), and the
\* third element is in its place.
C11_FirstTwoPermuted ==
    WindowOfTwoAtZero =>
        /\ main_events[3] = events[3]
        /\ \/ SubSeq(main_events, 1, 2) = <<events[2], events[1]>>
           \/ SubSeq(main_events, 1, 2) = <<events[1], events[2]>>

\* C11 witness: the case happened and the pass exchanged the first two
C11_Witness ==
    /\ WindowOfTwoAtZero
    /\ main_events = <<events[2], events[1], events[3]>>
    /\ events[1] # events[2]

----------------------------------------------------------------------------
(* The injector and its argument *)

\* C12: inject_edge_cases leaves its argument as it was given: no step of a
\* running call changes the list `events`, neither its length, nor the
\* order of its elements, nor what an element holds, whichever policies
\* fire; the lists it builds and rearranges are main_events and
\* late_arrivals.
C12_InputNotMutated ==
    [][ipc = "loop" => events' = events]_vars

\* C12 witness: a call returned in which an event was duplicated, an event
\* was marked late and the window shuffle rearranged main
C12_Witness ==
    /\ ipc = "returned"
    /\ Len(events) = MaxEvents
    /\ Len(main_events) > Len(events)
    /\ late_arrivals # <<>>
    /\ shuffled # <<>>
    /\ \E k \in 1 .. Len(main_events) - 1 :
           main_events[k].event_ts > main_events[k + 1].event_ts

----------------------------------------------------------------------------
(* Errors of the generator *)

\* the event type of the step the running call is about to process
StepType == frame.pattern.events[frame.step]

AtStep == gpc = "loop" /\ frame.step <= Len(frame.pattern.events)

\* the call that was running ended by raising: it returned no list, and it
\* had built `built` events
EndedRaising(built) ==
    /\ gpc' = "idle"
    /\ Len(returned') = Len(returned) + 1
    /\ SubSeq(returned', 1, Len(returned)) = returned
    /\ returned'[Len(returned')].raised
    /\ returned'[Len(returned')].events = <<>>
    /\ returned'[Len(returned')].built = built

\* C15: a step whose event type is none of the seven known types ends the
\* call at once with an error: nothing is returned and no later step is
\* processed; a step of a known type never raises, whatever the ledger
\* holds: it appends its event and the call goes on.
C15_UnknownTypeRaises ==
    [][AtStep =>
          IF StepType \notin EventTypes
          THEN EndedRaising(Len(frame.events))
          ELSE /\ gpc' = "loop"
               /\ returned' = returned
               /\ frame'.step = frame.step + 1
               /\ Len(frame'.events) = Len(frame.events) + 1
               /\ frame'.events[Len(frame'.events)].event_type = StepType]_vars

\* C15 witness: a call raised at its third step, two events built and a
\* step left unprocessed
C15_Witness ==
    \E c \in Range(returned) :
        /\ c.raised
        /\ c.built = 2
        /\ Len(c.pattern.events) > 3
        /\ c.pattern.events[3] \notin EventTypes

\* a catalog with a malformed entry: a pattern without steps, or a pattern
\* whose weight is not positive
Malformed(ps) ==
    \E k \in DOMAIN ps : ps[k].events = <<>> \/ ps[k].weight <= 0

\* C16: with a malformed catalog, generate_order_lifecycle signals an error
\* to its caller and returns no sequence.
C16_MalformedCatalogRaises ==
    Malformed(patterns) => \A c \in Range(returned) : c.raised

\* What the code does give: the call raises when the weights do not add up
\* to a positive total (random.choices); otherwise it returns one event per
\* step of the pattern drawn, none for a pattern without steps.
MalformedCatalogOutcome ==
    Malformed(patterns) =>
        \A c \in Range(returned) :
            IF ChoicesRaises(patterns) THEN c.raised
            ELSE ~c.raised /\ Len(c.events) = Len(c.pattern.events)

\* a malformed catalog gave an empty list, and another gave events
MalformedCatalogOutcome_Witness ==
    /\ Malformed(patterns)
    /\ \E c \in Range(returned) : ~c.raised /\ c.events = <<>>

----------------------------------------------------------------------------
(* The item ledger between calls *)

\* C17: the ledger of an order is local to its call and discarded when the
\* call returns: between calls a generator holds no ledger entry for an
\* order whose lifecycle it has returned.
C17_LedgerDiscarded ==
    gpc = "idle" =>
        \A c \in Range(returned) :
            ~c.raised => c.order_id \notin DOMAIN generators[c.self].order_items

\* What the code does: self.order_items keeps the entry of every order a
\* call got as far as resetting, with the items the lifecycle left present.
LedgerKept ==
    gpc = "idle" =>
        \A k \in DOMAIN returned :
            (/\ ~returned[k].raised
             /\ \A j \in k + 1 .. Len(returned) :
                    returned[j].order_id # returned[k].order_id
                    \/ returned[j].self # returned[k].self)
            => LET c == returned[k]
                   ledger == generators[c.self].order_items
               IN /\ c.order_id \in DOMAIN ledger
                  /\ {it.item_id : it \in Range(ledger[c.order_id])}
                         = PresentIds(c.events, Len(c.events))

\* a returned lifecycle left two items in the ledger of its generator
LedgerKept_Witness ==
    /\ gpc = "idle"
    /\ \E c \in Range(returned) :
           /\ ~c.raised
           /\ c.order_id \in DOMAIN generators[c.self].order_items
           /\ Len(generators[c.self].order_items[c.order_id]) = 2

----------------------------------------------------------------------------
(* The walk over a pattern *)

\* the event types of a list of events
TypesOf(evs) == [k \in DOMAIN evs |-> evs[k].event_type]

\* C18: a returned sequence has one event per step of the pattern its call
\* selected, in the order of the steps, and the events built so far by a
\* running call are the first steps of its pattern.  For the patterns of
\* config.ORDER_PATTERNS the sequence begins with ORDER_CREATED, and the
\* tracked status follows the state machine: a step ORDER_CONFIRMED is
\* processed in status PENDING only, ORDER_COMPLETED in CONFIRMED only,
\* ORDER_CANCELLED in PENDING or CONFIRMED only, and once the status is
\* CANCELLED or COMPLETED no step is left.
C18_PatternWalk ==
    /\ \A c \in Range(returned) :
           ~c.raised =>
               /\ TypesOf(c.events) = c.pattern.events
               /\ patterns = ORDER_PATTERNS =>
                      /\ c.events # <<>>
                      /\ c.events[1].event_type = "ORDER_CREATED"
    /\ gpc = "loop" =>
           /\ frame.step = Len(frame.events) + 1
           /\ TypesOf(frame.events)
                  = SubSeq(frame.pattern.events, 1, Len(frame.events))
           /\ patterns = ORDER_PATTERNS =>
                  /\ frame.current_status \in {"CANCELLED", "COMPLETED"}
                         => ~AtStep
                  /\ AtStep =>
                         /\ StepType = "ORDER_CONFIRMED"
                                => frame.current_status = "PENDING"
                         /\ StepType = "ORDER_COMPLETED"
                                => frame.current_status = "CONFIRMED"
                         /\ StepType = "ORDER_CANCELLED"
                                => frame.current_status \in {"PENDING", "CONFIRMED"}
                         /\ frame.step = 1 => StepType = "ORDER_CREATED"

\* C18 witness: config.ORDER_PATTERNS returned a LATE_CANCEL lifecycle, the
\* order cancelled after it was confirmed
C18_Witness ==
    /\ patterns = ORDER_PATTERNS
    /\ \E c \in Range(returned) :
           /\ ~c.raised
           /\ c.pattern.name = "LATE_CANCEL"
           /\ TypesOf(c.events) = <<"ORDER_CREATED", "ORDER_ITEM_ADDED",
                                    "ORDER_CONFIRMED", "ORDER_CANCELLED">>

----------------------------------------------------------------------------
(* The late list *)

\* whether a is b with some of its elements left out, the others in order
RECURSIVE IsSubsequence(_, _)
IsSubsequence(a, b) ==
    IF a = <<>> THEN TRUE
    ELSE IF b = <<>> THEN FALSE
    ELSE IF Head(a) = Head(b) THEN IsSubsequence(Tail(a), Tail(b))
    ELSE IsSubsequence(a, Tail(b))

\* C19: late_arrivals is a subsequence of the input: its events are input
\* events, in input order, each at most once; an event that was duplicated
\* in main and marked late is in late exactly once.
C19_LateIsSubsequence ==
    ipc \in {"loop", "returned"} =>
        /\ IsSubsequence(late_arrivals, events)
        /\ \A id \in Ids(events) : IdCount(late_arrivals, id) <= 1
        /\ \A id \in Ids(late_arrivals) :
               IdCount(main_events, id) = 2 => IdCount(late_arrivals, id) = 1

\* C19 witness: a call returned with two late events, one of them
\* duplicated in main
C19_Witness ==
    /\ ipc = "returned"
    /\ Len(late_arrivals) >= 2
    /\ \E id \in Ids(late_arrivals) : IdCount(main_events, id) = 2
    /\ \E id \in Ids(late_arrivals) : IdCount(main_events, id) = 1

----------------------------------------------------------------------------
(* Removal from an empty ledger *)

\* the ledger of the order of the running call
Ledger == DictGet(generators[frame.self].order_items, frame.order_id, <<>>)

\* the item_ids of the ORDER_ITEM_ADDED events among evs
AddedIds(evs) == {evs[k].payload.item_id : k \in {j \in DOMAIN evs : IsAdded(evs[j])}}

\* C20: a step ORDER_ITEM_REMOVED processed while the ledger of the order is
\* empty raises nothing: it appends an event whose item_id is the id of no
\* item that an earlier ORDER_ITEM_ADDED of the order added (so of none in
\* the ledger), the ledger stays empty, and the call goes on to the next
\* step.
C20_RemoveFromEmptyLedger ==
    [][(AtStep /\ StepType = "ORDER_ITEM_REMOVED" /\ Ledger = <<>>) =>
          /\ gpc' = "loop"
          /\ returned' = returned
          /\ frame'.step = frame.step + 1
          /\ frame'.events = Append(frame.events,
                                    frame'.events[Len(frame'.events)])
          /\ LET e == frame'.events[Len(frame'.events)]
             IN /\ IsRemoved(e)
                /\ e.payload.item_id \notin AddedIds(frame.events)
          /\ DictGet(generators'[frame.self].order_items,
                     frame.order_id, <<>>) = <<>>]_vars

\* C20 witness: a returned lifecycle added an item, removed it, removed
\* from the empty ledger, and went on to add an item and complete
C20_Witness ==
    \E c \in Range(returned) :
        /\ ~c.raised
        /\ TypesOf(c.events) = <<"ORDER_CREATED", "ORDER_ITEM_ADDED",
                                 "ORDER_ITEM_REMOVED", "ORDER_ITEM_REMOVED",
                                 "ORDER_ITEM_ADDED", "ORDER_COMPLETED">>
        /\ c.events[4].payload.item_id \notin AddedIds(c.events)
        /\ c.events[3].payload.item_id \in AddedIds(c.events)

----------------------------------------------------------------------------
(* Properties of the simulation run *)

\* the lists s[1].main, s[2].main, ... one after the other, and the same
\* for the late lists
RECURSIVE AllMain(_)
AllMain(s) == IF s = <<>> THEN <<>> ELSE s[1].main \o AllMain(Tail(s))

RECURSIVE AllLate(_)
AllLate(s) == IF s = <<>> THEN <<>> ELSE s[1].late \o AllLate(Tail(s))

IsProduce(c) == c.call = "produce"

\* the message the producer is to be handed for event e: e serialized,
\* under the key of e's order_id
MessageFor(e) ==
    [call |-> "produce", topic |-> "orders.events.raw",
     key |-> <<"utf-8", e.order_id>>, value |-> <<"avro", e>>]

MessagesFor(evs) == [k \in DOMAIN evs |-> MessageFor(evs[k])]

\* the places of the log where the producer was flushed, and where the run
\* slept for the late-arrival delay
Flushes == {k \in DOMAIN log : log[k] = Flush}
LateSleeps == {k \in DOMAIN log : log[k] = Sleep(LateArrivalDelay)}

\* C13: while orders are generated, injected and their main events sent,
\* the producer has not been flushed and nothing but main events was sent.
\* When the run sends late events, every order is done, every main event of
\* every order was handed to the producer before the one flush, the flush
\* was followed by one sleep of the late-arrival delay, and the late events
\* sent so far all come after that sleep.  Between the flush and that sleep
\* nothing is sent.  At no time has the run slept for the late-arrival
\* delay more than once.
C13_LateAfterFlush ==
    /\ Cardinality(LateSleeps) <= 1
    /\ rpc \in {"orders", "generating", "injecting", "sending"} =>
           /\ Flushes = {} /\ LateSleeps = {}
           /\ SelectSeq(log, IsProduce)
                  = MessagesFor(
                        IF rpc = "sending"
                        THEN AllMain(SubSeq(injected, 1, Len(injected) - 1))
                                 \o SubSeq(main_events, 1, sent)
                        ELSE AllMain(injected))
    /\ rpc = "flushed" =>
           /\ Len(injected) = num_orders
           /\ Flushes = {Len(log)} /\ LateSleeps = {}
           /\ SelectSeq(log, IsProduce) = MessagesFor(AllMain(injected))
    /\ rpc = "late" =>
           /\ Len(injected) = num_orders
           /\ Cardinality(Flushes) = 1
           /\ LET f == CHOOSE k \in Flushes : TRUE
              IN /\ SelectSeq(SubSeq(log, 1, f), IsProduce)
                        = MessagesFor(AllMain(injected))
                 /\ LateSleeps = {f + 1}
                 /\ SelectSeq(SubSeq(log, f + 2, Len(log)), IsProduce)
                        = MessagesFor(SubSeq(all_late_arrivals, 1, sent))

\* C13 witness: two orders, each with late events; the run has sent a late
\* event of each
C13_Witness ==
    /\ rpc = "late"
    /\ num_orders = 2
    /\ injected[1].late # <<>> /\ injected[2].late # <<>>
    /\ sent > Len(injected[1].late)

\* C14: a run that ends without a send failure has handed the producer one
\* message per event of every order's main list, order after order, each
\* list in its own order, and then one per event of every late list in the
\* same way, each message keyed by the order_id of its event; the lists are
\* those the injector returned for the lifecycle generated for the order.
C14_OneMessagePerEvent ==
    rpc = "done" =>
        /\ Len(injected) = num_orders
        /\ SelectSeq(log, IsProduce)
               = MessagesFor(AllMain(injected) \o AllLate(injected))
        /\ \A k \in DOMAIN injected :
               /\ returned[k].order_id = OrderIdOf(k - 1)
               /\ Ids(injected[k].main) = Ids(returned[k].events)
               /\ \A e \in Range(injected[k].main) \cup Range(injected[k].late) :
                      e.order_id = OrderIdOf(k - 1)

\* C14 witness: a run of two orders ended; an event was duplicated, both
\* orders had late events
C14_Witness ==
    /\ rpc = "done"
    /\ num_orders = 2
    /\ injected[1].late # <<>> /\ injected[2].late # <<>>
    /\ Len(injected[1].main) > Len(returned[1].events)
    /\ Len(SelectSeq(log, IsProduce))
           = Len(AllMain(injected)) + Len(AllLate(injected))

----------------------------------------------------------------------------
(* The status an update reports *)

\* the event types that set the tracked status, and the status each sets
SetsStatus(e) ==
    e.event_type \in {"ORDER_CONFIRMED", "ORDER_CANCELLED", "ORDER_COMPLETED"}

StatusSetBy(e) ==
    CASE e.event_type = "ORDER_CONFIRMED" -> "CONFIRMED"
      [] e.event_type = "ORDER_CANCELLED" -> "CANCELLED"
      [] e.event_type = "ORDER_COMPLETED" -> "COMPLETED"

\* the tracked status after the first k events of evs, read from the
\* events alone: that of the last of them that sets it, PENDING when none
\* does
StatusAfter(evs, k) ==
    LET S == {j \in 1 .. k : SetsStatus(evs[j])}
    IN IF S = {} THEN "PENDING"
       ELSE StatusSetBy(evs[CHOOSE j \in S : \A m \in S : m <= j])

\* C21: the old_status of every ORDER_UPDATED is the tracked status at its
\* place in the sequence: PENDING when no ORDER_CONFIRMED, ORDER_CANCELLED
\* or ORDER_COMPLETED comes before it, else the status the last of those
\* set; an ORDER_UPDATED and its new_status change nothing for the events
\* after it.  The status a running call tracks is that same status.
C21_OldStatusIsTracked ==
    /\ \A c \in Calls : \A k \in DOMAIN c.events :
           c.events[k].event_type = "ORDER_UPDATED" =>
               c.events[k].payload.old_status = StatusAfter(c.events, k - 1)
    /\ gpc = "loop" =>
           frame.current_status = StatusAfter(frame.events, Len(frame.events))

\* C21 witness: a returned sequence in which an update with new_status
\* CONFIRMED is followed by an update that still reports PENDING, and an
\* update after the confirmation reports CONFIRMED
C21_Witness ==
    \E c \in Range(returned) :
        /\ ~c.raised
        /\ c.pattern.name = "UPDATE_OFTEN"
        /\ c.events[2].payload.new_status = "CONFIRMED"
        /\ c.events[3].payload.old_status = "PENDING"
        /\ c.events[5].payload.old_status = "CONFIRMED"
        /\ c.events[7].payload.old_status = "COMPLETED"

----------------------------------------------------------------------------
(* Sending comes after generation and injection *)

\* the event of message m is the next one of a list whose generation and
\* injection are over: in the order loop the main list the injector returned
\* for the order at hand, after it the late lists of every order, the list
\* all_late_arrivals, none of them running any more
HandedOverComplete(m) ==
    /\ rpc \in {"sending", "late"}
    /\ gpc = "idle" /\ ipc = "idle"
    /\ Len(returned) = Len(injected)
    /\ ~returned[Len(returned)].raised
    /\ rpc = "sending" =>
           /\ Len(injected) = order_num + 1
           /\ returned[Len(returned)].order_id = OrderIdOf(order_num)
           /\ main_events = injected[Len(injected)].main
           /\ sent < Len(main_events)
           /\ m = MessageFor(main_events[sent + 1])
    /\ rpc = "late" =>
           /\ Len(injected) = num_orders
           /\ order_num = num_orders
           /\ all_late_arrivals = AllLate(injected)
           /\ sent < Len(all_late_arrivals)
           /\ m = MessageFor(all_late_arrivals[sent + 1])

\* C22: whenever a step hands a message to the producer, the list its
\* event is taken from was generated and injected in full before the step;
\* and a step of the send loops, whether the send succeeds, raises or is
\* interrupted, and the wait before the late events leave the generated
\* lifecycles, the main list and the late lists as they were.  The lists
\* the injector returned are never changed afterwards, and
\* all_late_arrivals is the late lists of the orders done, one after the
\* other.
C22_SendAfterCompletion ==
    [][ /\ \A k \in Len(log) + 1 .. Len(log') :
               IsProduce(log'[k]) => HandedOverComplete(log'[k])
        /\ rpc \in {"sending", "flushed", "late"} =>
               /\ main_events' = main_events
               /\ late_arrivals' = late_arrivals
               /\ all_late_arrivals' = all_late_arrivals
               /\ events' = events
               /\ returned' = returned
               /\ injected' = injected
        /\ Len(injected') >= Len(injected)
        /\ SubSeq(injected', 1, Len(injected)) = injected
        /\ all_late_arrivals' = AllLate(injected') ]_vars

\* C22 witness: the second order's sends were interrupted after one main
\* event went out and before the last, while poll ran for a message just
\* handed over; the first order left late events
C22_Witness ==
    /\ rpc = "interrupted"
    /\ Len(injected) = 2
    /\ injected[1].late # <<>>
    /\ sent >= 1 /\ sent < Len(main_events)
    /\ log[Len(log)] = Poll
    /\ log[Len(log) - 1] = MessageFor(main_events[sent + 1])
    /\ main_events = injected[2].main
    /\ all_late_arrivals = AllLate(injected)

----------------------------------------------------------------------------
(* One ledger entry per lifecycle *)

\* self.order_items of generator g
LedgerOf(g) == generators[g].order_items

\* C23: a call of generate_order_lifecycle that gets as far as its ledger
\* starts with an empty entry for its order_id, whatever an earlier call for
\* the same order_id left there; no step of a call adds, drops or changes
\* the entry of another order_id, or anything of another generator; and
\* while the call runs, the entry of its order_id holds the items that the
\* ORDER_ITEM_ADDED and ORDER_ITEM_REMOVED events the call has built so far
\* leave present, so that the total an ORDER_COMPLETED would take from it is
\* the total of those.
C23_OwnLedgerEntryOnly ==
    [][ /\ (gpc = "idle" /\ gpc' = "loop") =>
               LET g == frame'.self
                   o == frame'.order_id
               IN /\ generators'[g].order_items[o] = <<>>
                  /\ DOMAIN generators'[g].order_items
                         = DOMAIN LedgerOf(g) \cup {o}
                  /\ \A other \in DOMAIN LedgerOf(g) \ {o} :
                         generators'[g].order_items[other] = LedgerOf(g)[other]
                  /\ \A h \in Gens \ {g} : generators'[h] = generators[h]
        /\ gpc = "loop" =>
               LET g == frame.self
                   o == frame.order_id
               IN /\ DOMAIN generators'[g].order_items = DOMAIN LedgerOf(g)
                  /\ \A other \in DOMAIN LedgerOf(g) \ {o} :
                         generators'[g].order_items[other] = LedgerOf(g)[other]
                  /\ \A h \in Gens \ {g} : generators'[h] = generators[h]
        /\ gpc' = "loop" =>
               LET own == generators'[frame'.self].order_items[frame'.order_id]
                   n == Len(frame'.events)
               IN /\ {it.item_id : it \in Range(own)}
                         = PresentIds(frame'.events, n)
                  /\ Len(own) = Len(Present(frame'.events, n))
                  /\ ItemsTotal(own) = PresentTotal(frame'.events, n)
      ]_vars

\* C23 witness: two lifecycles were returned for the same order_id by the
\* same generator; the first left an item in the ledger, the second added
\* an item and completed the order with the total of its own item, which is
\* what the ledger holds
C23_Witness ==
    /\ gpc = "idle"
    /\ Len(returned) = 2
    /\ ~returned[1].raised /\ ~returned[2].raised
    /\ returned[1].order_id = returned[2].order_id
    /\ returned[1].self = returned[2].self
    /\ Present(returned[1].events, Len(returned[1].events)) # <<>>
    /\ LET c == returned[2]
           own == LedgerOf(c.self)[c.order_id]
       IN /\ Len(own) = 1
          /\ PresentIds(c.events, Len(c.events))
                 = {it.item_id : it \in Range(own)}
          /\ \E k \in DOMAIN c.events :
                 /\ c.events[k].event_type = "ORDER_COMPLETED"
                 /\ c.events[k].payload.total_amount = ItemsTotal(own)

====
